---- MODULE Spec2Model ----
\* Model of the agent-builder front end: the builder chat (useChat and the
\* AgentContext provider), the KnowledgeUpload and ConfigPanel components, the
\* TestAgent page with its log tail, and the error handling of the API client.
EXTENDS Integers, Sequences, FiniteSets, TLC

\* ------------------------------------------------------------------ bounds

\* Chat messages the user sends in one session of the builder.
MaxSends == 2
\* Chat messages the user sends in one session of the test page.
MaxTestSends == 2
\* Stream events delivered in one session.
MaxLogDeliveries == 2
\* Log fetches (initial loads and refreshes) sent in one session.
MaxLogFetches == 4
\* Times KnowledgeUpload is opened in one session.
MaxMounts == 2
\* Pages mounted in one session (the first one included).
MaxPageMounts == 3
\* MCP list requests followed in one session.
MaxMcpRequests == 3
\* Event sources opened in one session.
MaxStreams == 3

\* Backend requests KnowledgeUpload starts in one session.
MaxKnowledgeCalls == 2
MaxFileCalls == 1

\* ------------------------------------------------------------- text values

\* A text is a sequence of strings: the parts of a template literal, the words
\* of a backend message, or the characters of what the user typed.
NoText == <<>>

\* JavaScript null / undefined, for values that are texts or records elsewhere.
Null == [tag |-> "null"]

IsWhitespace(c) == c \in {" ", "\n", "\t"}

RECURSIVE TrimStart(_)
TrimStart(s) ==
    IF s = <<>> THEN <<>>
    ELSE IF IsWhitespace(Head(s)) THEN TrimStart(Tail(s))
    ELSE s

RECURSIVE TrimEnd(_)
TrimEnd(s) ==
    IF s = <<>> THEN <<>>
    ELSE IF IsWhitespace(s[Len(s)]) THEN TrimEnd(SubSeq(s, 1, Len(s) - 1))
    ELSE s

\* String.prototype.trim
Trim(s) == TrimEnd(TrimStart(s))

\* String.prototype.includes, on a text of words
Includes(text, word) == \E i \in 1..Len(text) : text[i] = word

\* --------------------------------------------------- API client: HTTP errors

\* The API functions that reject with the Error of their `!response.ok` block.
ApiNames ==
    {"sendMessage", "uploadFile", "getFiles", "createIndex", "removeFile",
     "testAgentChat", "generateYaml", "fetchLogs", "toggleMode", "addMcpServer"}

\* The fallback text each API function passes to `errorData.detail || ...`.
FallbackText(api) ==
    CASE api = "sendMessage" -> <<"Error communicating with the server">>
      [] api = "uploadFile" -> <<"Error uploading file">>
      [] api = "getFiles" -> <<"Error getting files">>
      [] api = "createIndex" -> <<"Error creating index">>
      [] api = "removeFile" -> <<"Error removing file">>
      [] api = "testAgentChat" -> <<"Error communicating with the agent">>
      [] api = "generateYaml" -> <<"Error generating YAML">>
      [] api = "fetchLogs" -> <<"Error fetching logs">>
      [] api = "toggleMode" -> <<"Error toggling mode">>
      [] api = "addMcpServer" -> <<"Error adding MCP server">>

HighDemandText ==
    <<"The service is currently experiencing high demand. Please wait a moment and try again.">>

\* Non-2xx statuses the backend answers with, and their status texts.
ErrorStatuses == {"400", "404", "429", "500", "503"}

StatusText(status) ==
    CASE status = "400" -> "Bad Request"
      [] status = "404" -> "Not Found"
      [] status = "429" -> "Too Many Requests"
      [] status = "500" -> "Internal Server Error"
      [] status = "503" -> "Service Unavailable"

\* Bodies of a non-2xx response: not JSON, JSON without detail, JSON with detail.
ErrorBodies ==
    {[json |-> FALSE, hasDetail |-> FALSE, detail |-> NoText],
     [json |-> TRUE, hasDetail |-> FALSE, detail |-> NoText],
     [json |-> TRUE, hasDetail |-> TRUE, detail |-> <<"Agent", "not", "found">>],
     [json |-> TRUE, hasDetail |-> TRUE, detail |-> <<"model", "overloaded">>],
     [json |-> TRUE, hasDetail |-> TRUE, detail |-> <<"Invalid", "file", "type">>]}

\* The try block after `!response.ok`: JSON.parse and the throw statements.
\* Every path through it throws; `message` is the message of what it throws.
ErrorTryBlock(api, body) ==
    IF ~body.json THEN [thrown |-> TRUE, message |-> <<"SyntaxError">>]
    ELSE IF /\ api = "sendMessage"
            /\ body.hasDetail
            /\ (Includes(body.detail, "overloaded") \/ Includes(body.detail, "rate limit"))
         THEN [thrown |-> TRUE, message |-> HighDemandText]
    ELSE [thrown |-> TRUE,
          message |-> IF body.hasDetail /\ body.detail # NoText
                      THEN body.detail ELSE FallbackText(api)]

\* The `catch (jsonError)` block that encloses the try block above.
ErrorCatchBlock(api, status) ==
    IF api = "sendMessage" /\ status = "503"
    THEN <<"The service is temporarily unavailable. Please try again in a few moments.">>
    ELSE IF api = "sendMessage" /\ status = "429"
    THEN <<"Too many requests. Please wait a moment before trying again.">>
    ELSE IF api = "sendMessage" /\ status = "500"
    THEN <<"The service is experiencing technical difficulties. Please try again later.">>
    ELSE <<"Server error: ", status, " ", StatusText(status)>>

\* The message of the Error an API function rejects with on a non-2xx response.
HttpErrorMessage(api, status, body) ==
    LET t == ErrorTryBlock(api, body) IN
    IF t.thrown THEN ErrorCatchBlock(api, status) ELSE t.message

\* fetch itself rejects (network error).
NetworkErrorText == <<"Failed to fetch">>

\* ------------------------------------------------ AgentContext: the provider

\* The state AgentProvider constructs.
InitialAgentConfig ==
    [name |-> NoText,
     description |-> NoText,
     instruction |-> NoText,
     memory_size |-> 10,
     mode |-> "debug",
     tools |-> <<>>,
     mcp_servers |-> <<>>,
     knowledge_base |->
        [storage_type |-> "null",
         index_info |-> "null",
         project_name |-> "null",
         local_path |-> "null",
         document_count |-> 0,
         file_names |-> <<>>]]

\* { ...a, ...b }: the fields of b over the fields of a.
Spread(a, b) ==
    [f \in (DOMAIN a) \cup (DOMAIN b) |-> IF f \in DOMAIN b THEN b[f] ELSE a[f]]

\* obj[field] = value on a copy of obj.
SetField(obj, field, value) ==
    [f \in (DOMAIN obj) \cup {field} |-> IF f = field THEN value ELSE obj[f]]

\* The body applied to one update of config_updates.
ApplyOneUpdate(config, update) ==
    IF update.field = "tools" THEN SetField(config, "tools", update.value)
    ELSE IF update.field = "knowledge_base"
    THEN SetField(config, "knowledge_base", Spread(config.knowledge_base, update.value))
    ELSE SetField(config, update.field, update.value)

\* forEach over an array of updates; reading `.field` of a null entry throws.
RECURSIVE ApplyUpdateArray(_, _)
ApplyUpdateArray(config, items) ==
    IF items = <<>> THEN [threw |-> FALSE, config |-> config]
    ELSE IF Head(items).tag = "null" THEN [threw |-> TRUE, config |-> config]
    ELSE ApplyUpdateArray(ApplyOneUpdate(config, Head(items)), Tail(items))

\* applyConfigUpdates storing the updates applied before the throw.
applyConfigUpdatesPartial(closureConfig, current, configUpdates) ==
    IF configUpdates.tag = "none" THEN [threw |-> FALSE, config |-> current]
    ELSE IF configUpdates.tag = "array"
    THEN ApplyUpdateArray(closureConfig, configUpdates.items)
    ELSE [threw |-> FALSE, config |-> ApplyOneUpdate(closureConfig, configUpdates.update)]

\* applyConfigUpdates: `closureConfig` is the agentConfig of the render the
\* caller closed over, `current` the provider's state when the call is made.
\* The result is the state afterwards (setAgentConfig(updatedConfig)), or
\* `threw` with the state untouched.
applyConfigUpdates(closureConfig, current, configUpdates) ==
    IF configUpdates.tag = "none" THEN [threw |-> FALSE, config |-> current]
    ELSE IF configUpdates.tag = "array"
    THEN LET r == ApplyUpdateArray(closureConfig, configUpdates.items) IN
         IF r.threw THEN [threw |-> TRUE, config |-> current] ELSE r
    ELSE [threw |-> FALSE, config |-> ApplyOneUpdate(closureConfig, configUpdates.update)]

\* updateKnowledgeStorage: a functional update of the current state.
updateKnowledgeStorage(current, storageInfo) ==
    SetField(current, "knowledge_base",
        Spread(current.knowledge_base,
            [storage_type |-> storageInfo.type,
             local_path |-> IF storageInfo.type = "local"
                            THEN storageInfo.local_path ELSE "null"]))

\* updateKnowledgeBase: a functional update of the current state. The
\* index_info of knowledgeInfo is stored as it is, missing or not.
updateKnowledgeBaseWithFallback(current, knowledgeInfo) ==
    SetField(current, "knowledge_base",
        Spread(current.knowledge_base,
            [storage_type |-> knowledgeInfo.storage_type,
             index_info |-> IF knowledgeInfo.index_info \in {"undefined", "null", ""}
                            THEN "idx-fallback" ELSE knowledgeInfo.index_info,
             document_count |-> knowledgeInfo.document_count,
             project_name |-> knowledgeInfo.project_name,
             file_names |-> knowledgeInfo.file_names,
             sanitized_name |-> knowledgeInfo.sanitized_name]))

updateKnowledgeBase(current, knowledgeInfo) ==
    SetField(current, "knowledge_base",
        Spread(current.knowledge_base,
            [storage_type |-> knowledgeInfo.storage_type,
             index_info |-> knowledgeInfo.index_info,
             document_count |-> knowledgeInfo.document_count,
             project_name |-> knowledgeInfo.project_name,
             file_names |-> knowledgeInfo.file_names,
             sanitized_name |-> knowledgeInfo.sanitized_name]))

\* sanitizeAgentName on the names the model uses (texts of characters):
\* lower-case, whitespace runs to one hyphen, other characters dropped,
\* hyphens stripped at both ends, 'agent' when nothing is left.
LowerCase(c) ==
    CASE c = "B" -> "b"
      [] c = "T" -> "t"
      [] OTHER -> c

IsNameChar(c) == c \in {"b", "o", "t", "-"}

RECURSIVE SanitizeChars(_, _)
SanitizeChars(s, afterSpace) ==
    IF s = <<>> THEN <<>>
    ELSE LET c == LowerCase(Head(s)) IN
         IF IsWhitespace(c)
         THEN (IF afterSpace THEN <<>> ELSE <<"-">>) \o SanitizeChars(Tail(s), TRUE)
         ELSE IF IsNameChar(c) THEN <<c>> \o SanitizeChars(Tail(s), FALSE)
         ELSE SanitizeChars(Tail(s), FALSE)

RECURSIVE StripHyphensStart(_)
StripHyphensStart(s) ==
    IF s # <<>> /\ Head(s) = "-" THEN StripHyphensStart(Tail(s)) ELSE s

RECURSIVE StripHyphensEnd(_)
StripHyphensEnd(s) ==
    IF s # <<>> /\ s[Len(s)] = "-"
    THEN StripHyphensEnd(SubSeq(s, 1, Len(s) - 1)) ELSE s

sanitizeAgentName(name) ==
    IF name = NoText THEN NoText
    ELSE LET replaced == SanitizeChars(name, FALSE)
             limited == IF Len(replaced) > 20 THEN SubSeq(replaced, 1, 20) ELSE replaced
             stripped == StripHyphensEnd(StripHyphensStart(limited))
         IN IF stripped = NoText THEN <<"a", "g", "e", "n", "t">> ELSE stripped

\* --------------------------------------------------------------- the state

VARIABLES
    \* AgentContext (shared by every component under AgentProvider)
    agentConfig,            \* the agent configuration object
    messages,               \* the builder chat history
    isLoading,              \* the shared loading flag
    showYamlButton,
    yamlContent,
    showKnowledgeUpload,
    showMcpServerSelection,
    \* ChatPanel's useChat instance
    inputMessage,
    error,                  \* NoText stands for null
    \* the handleSendMessage calls that are suspended at an await:
    \* chats[i].pc, and the render values call i closed over
    chats,
    \* AgentBuilder's health check: "idle" before the mount effects have run
    health,
    \* what the user and the network did (history, read by the properties)
    event,                  \* the handler or continuation that ran last
    chatRequests,           \* POST /api/chat requests sent so far
    lastResponse,           \* the response the last chat continuation consumed
    \* KnowledgeUpload (rendered by ConfigPanel while showKnowledgeUpload)
    ku,                     \* the mounted instance's local state
    kuCalls,                \* its handlers (and older instances') suspended at an await
    kuCallsStarted,         \* backend requests KnowledgeUpload has started so far
    kuTimers,               \* pending 3 s auto-close timers, by the instance that set them
    \* ConfigPanel (its MCP server list is local to the mounted instance)
    panel,                  \* the useState values of the instance
    panelTimers,            \* its pending 500 ms timeout and its running 10 s interval
    panelCalls,             \* loadMcpServers calls suspended at `await fetch`
    mcpRequests,            \* GET /api/mcp-servers/list requests sent so far
    \* the API client
    apiCall,                \* the last call a non-2xx response rejected, and its Error
    \* the router of App
    route,                  \* the page that is mounted: "builder" or "test"
    mounts,                 \* page mounts so far; a page instance is named by its number
    orphanHealthChecks,     \* health checks of unmounted AgentBuilder instances, pending
    \* TestAgent (all of its state is local to the mounted instance)
    ta,                     \* the useState values of the instance
    taReaders,              \* FileReader loads in progress
    taChats,                \* handleSendMessage calls suspended at `await testAgentChat`
    taRequests,             \* POST /api/test-agent requests sent so far
    \* TestAgent's log tail
    logRuns,                \* the runs of the [activeTab] effect that called setupSSE
    logCalls,               \* fetchLogs calls in flight
    logFetches,             \* GET /api/logs/current requests sent so far
    streams,                \* the EventSources opened on /api/logs/stream
    logDeliveries           \* stream events delivered so far

builderVars ==
    <<agentConfig, messages, isLoading, showYamlButton, yamlContent,
      showKnowledgeUpload, showMcpServerSelection, inputMessage, error, chats,
      health, chatRequests, lastResponse>>

knowledgeVars == <<ku, kuCalls, kuCallsStarted, kuTimers>>

panelVars == <<panel, panelTimers, panelCalls, mcpRequests>>

apiVars == <<apiCall>>

navVars == <<route, mounts, orphanHealthChecks>>

testVars == <<ta, taReaders, taChats, taRequests>>

logVars == <<logRuns, logCalls, logFetches, streams, logDeliveries>>

\* The state outside the builder page.
otherVars == <<apiVars, navVars, testVars, logVars>>

\* What the chat and the health check leave alone, and what KnowledgeUpload does.
outsideChat == <<knowledgeVars, panelVars, otherVars>>
outsideKnowledge ==
    <<messages, isLoading, showYamlButton, yamlContent, showMcpServerSelection,
      inputMessage, error, chats, health, chatRequests, lastResponse,
      panelVars, otherVars>>

\* What TestAgent's chat and upload leave alone, and what its log tail does.
outsideTest == <<builderVars, knowledgeVars, panelVars, apiVars, navVars, logVars>>
outsideLogs ==
    <<builderVars, knowledgeVars, panelVars, apiVars, navVars,
      taReaders, taChats, taRequests>>

\* What ConfigPanel's server list leaves alone.
outsidePanel == <<builderVars, knowledgeVars, otherVars>>

vars == <<builderVars, knowledgeVars, panelVars, otherVars, event>>

\* ------------------------------------------------------ useChat: the values

WelcomeMessage ==
    [role |-> "assistant", content |-> <<"Welcome to the Agent Builder!">>]

\* What the user may have typed into the chat input.
Inputs == {NoText, <<" ", "\n">>, <<"h", "i", " ">>}

NoUpdates == [tag |-> "none"]
SingleUpdate(field, value) ==
    [tag |-> "single", update |-> [tag |-> "update", field |-> field, value |-> value]]
UpdateArray(items) == [tag |-> "array", items |-> items]
Update(field, value) == [tag |-> "update", field |-> field, value |-> value]
NullEntry == [tag |-> "null"]

\* A 2xx body of POST /api/chat. `message` is the reply text; the three tag
\* fields say which sentinel tags the reply text carries (what the regular
\* expressions of handleSendMessage find in it); `hasMessage` is FALSE for a
\* body without a message field.
ChatReply(text, updates, yaml, promptKnowledge, promptMcp, storage, hasMessage) ==
    [ok |-> TRUE, message |-> text, hasMessage |-> hasMessage,
     config_updates |-> updates, generate_yaml |-> yaml,
     promptKnowledgeUpload |-> promptKnowledge, promptMcpServer |-> promptMcp,
     knowledgeStorage |-> storage]

\* A failed request: the message of the Error sendMessage rejects with.
ChatFailure(message) == [ok |-> FALSE, message |-> message]

SearchTool == [name |-> "search", endpoint |-> "/search"]

\* The outcomes of a chat request the model follows.
ChatResponses ==
    << ChatReply(<<"What", "next?">>, NoUpdates, FALSE, FALSE, FALSE, "none", TRUE),
       ChatReply(<<"Named.">>, SingleUpdate("name", <<"B", "o", "t">>),
                 FALSE, TRUE, FALSE, "none", TRUE),
       ChatReply(<<"Configured.">>,
                 UpdateArray(<<Update("memory_size", 20), Update("tools", <<SearchTool>>)>>),
                 FALSE, FALSE, TRUE, "local", TRUE),
       ChatReply(<<"Done.">>, SingleUpdate("description", <<"helper">>),
                 TRUE, FALSE, FALSE, "none", TRUE),
       ChatReply(<<"Broken.">>,
                 UpdateArray(<<Update("memory_size", 20), NullEntry>>),
                 FALSE, FALSE, FALSE, "none", TRUE),
       ChatReply(NoText, NoUpdates, FALSE, FALSE, FALSE, "none", FALSE),
       ChatFailure(NetworkErrorText),
       ChatFailure(HttpErrorMessage("sendMessage", "500",
            [json |-> TRUE, hasDetail |-> TRUE, detail |-> <<"model", "overloaded">>])),
       ChatFailure(HttpErrorMessage("sendMessage", "404",
            [json |-> TRUE, hasDetail |-> TRUE, detail |-> <<"Agent", "not", "found">>])),
       ChatReply(<<"Tuned.">>,
                 UpdateArray(<<Update("memory_size", 20),
                               Update("knowledge_base", [document_count |-> 2]),
                               Update("memory_size", 500)>>),
                 FALSE, FALSE, FALSE, "none", TRUE) >>

NoResponse == [ok |-> FALSE, message |-> NoText]

UserMessage(text) == [role |-> "user", content |-> text]
BotMessage(text) == [role |-> "assistant", content |-> text]

\* The assistant message and the inline error string of the catch block.
ChatErrorMessage(errMessage) ==
    [role |-> "assistant",
     content |-> <<"Sorry, I encountered an error processing your request: ">>
                 \o errMessage \o <<". Please try again.">>]
ChatErrorString(errMessage) == <<"Error communicating with Claude: ">> \o errMessage

TypeErrorText == <<"Cannot read properties of undefined">>

NoYaml == [source |-> "none"]
IdleChat ==
    [pc |-> "idle", mount |-> 0, agentConfig |-> InitialAgentConfig,
     updatedMessages |-> <<>>]

\* The local state a KnowledgeUpload instance is constructed with. `live` is
\* whether the instance is mounted, `depName` the agentConfig.name its
\* loadFiles effect last ran for ("unset" before its first run).
FreshKnowledgeUpload(inst) ==
    [inst |-> inst, live |-> TRUE, depName |-> <<"unset">>,
     files |-> <<>>, uploading |-> FALSE, creatingIndex |-> FALSE,
     savingLocal |-> FALSE, error |-> NoText, success |-> FALSE,
     hasIndex |-> FALSE]

NoKnowledgeUpload == [FreshKnowledgeUpload(0) EXCEPT !.live = FALSE]

\* The useState initial values of a ConfigPanel instance.
FreshConfigPanel(mount) ==
    [mount |-> mount, live |-> TRUE, mcpServers |-> <<>>, selectedServers |-> <<>>,
     requested |-> 0]

NoConfigPanel == [FreshConfigPanel(0) EXCEPT !.live = FALSE]

\* The timers ConfigPanel's mount effect starts: setTimeout(loadMcpServers, 500)
\* and the 10 s interval, whose callback reads the mcpServers of the render
\* the effect ran in (the effect has no dependencies).
MountTimers(mount) ==
    {[kind |-> "timeout", mount |-> mount, mcpServers |-> <<>>],
     [kind |-> "interval", mount |-> mount, mcpServers |-> <<>>]}

\* The cleanup of ConfigPanel's mount effect: clearInterval(intervalId).
PanelCleanup(timers, mount) ==
    {t \in timers : ~(t.kind = "interval" /\ t.mount = mount)}

\* Render and effects are flushed: what React has done before it hands the
\* next user event or the next settled promise to a handler.
Flushed ==
    /\ route = "builder" =>
            /\ health # "idle"
            /\ ku.live = showKnowledgeUpload
            /\ ku.live => ku.depName = agentConfig.name
    /\ route = "test" => ta.effectTab = ta.activeTab

\* ----------------------------------------------------- useChat: the handler

\* The mount effects of the builder page, flushed before any user event:
\* useChat's welcome message and AgentBuilder.verifyApiConnection up to its await.
MountEffects ==
    /\ UNCHANGED <<knowledgeVars, otherVars>>
    /\ route = "builder"
    /\ health = "idle"
    /\ panel' = FreshConfigPanel(mounts)
    /\ panelTimers' = panelTimers \cup MountTimers(mounts)
    /\ UNCHANGED <<panelCalls, mcpRequests>>
    /\ messages' = IF Len(messages) = 0 THEN <<WelcomeMessage>> ELSE messages
    /\ isLoading' = TRUE
    /\ health' = "pending"
    /\ event' = "mountEffects"
    /\ UNCHANGED <<agentConfig, showYamlButton, yamlContent, showKnowledgeUpload,
                   showMcpServerSelection, inputMessage, error, chats,
                   chatRequests, lastResponse>>

\* checkHealth settles (either way): the finally block of verifyApiConnection.
HealthCheckSettles ==
    /\ UNCHANGED outsideChat
    /\ Flushed
    /\ health = "pending"
    /\ health' = "done"
    /\ isLoading' = FALSE
    /\ event' = "healthCheck"
    /\ UNCHANGED <<agentConfig, messages, showYamlButton, yamlContent,
                   showKnowledgeUpload, showMcpServerSelection, inputMessage,
                   error, chats, chatRequests, lastResponse>>

\* The user edits the chat input (the textarea is disabled while loading).
TypeInput ==
    /\ UNCHANGED outsideChat
    /\ route = "builder"
    /\ Flushed
    /\ ~isLoading
    /\ \E text \in Inputs : inputMessage' = text
    /\ event' = "setInputMessage"
    /\ UNCHANGED <<agentConfig, messages, isLoading, showYamlButton, yamlContent,
                   showKnowledgeUpload, showMcpServerSelection, error, chats,
                   health, chatRequests, lastResponse>>

\* The guard on the first line of handleSendMessage.
SendGuardWithoutTrim(input, loading) == input # NoText /\ ~loading

SendGuard(input, loading) == Trim(input) # NoText /\ ~loading

\* handleSendMessage up to `await sendMessage(...)`. The user presses Enter in
\* the (enabled) textarea; request number chatRequests + 1 is sent with the
\* messages and the agentConfig of the current render.
HandleSendMessage ==
    /\ UNCHANGED outsideChat
    /\ route = "builder"
    /\ Flushed
    /\ ~isLoading
    /\ event' = "handleSendMessage"
    /\ IF ~SendGuard(inputMessage, isLoading)
       THEN UNCHANGED builderVars
       ELSE /\ chatRequests < MaxSends
            /\ messages' = Append(messages, UserMessage(inputMessage))
            /\ inputMessage' = NoText
            /\ isLoading' = TRUE
            /\ error' = NoText
            /\ chatRequests' = chatRequests + 1
            /\ chats' = [chats EXCEPT ![chatRequests + 1] =
                            [pc |-> "awaitSend", mount |-> mounts,
                             agentConfig |-> agentConfig,
                             updatedMessages |->
                                Append(messages, UserMessage(inputMessage))]]
            /\ UNCHANGED <<agentConfig, showYamlButton, yamlContent,
                           showKnowledgeUpload, showMcpServerSelection, health,
                           lastResponse>>

\* The try block after `await sendMessage` for a 2xx response `r`, run against
\* the provider state `current`, by a call that closed over `closureConfig`.
\* `thrown` is the message of the error that left the try block, or NoText.
ProcessResponse(r, closureConfig, current) ==
    LET applied == applyConfigUpdates(closureConfig, current, r.config_updates)
        stored == IF r.knowledgeStorage \in {"local", "llamacloud"}
                  THEN updateKnowledgeStorage(applied.config,
                          [type |-> r.knowledgeStorage, local_path |-> "undefined"])
                  ELSE applied.config
    IN  IF applied.threw
        THEN [thrown |-> TypeErrorText, agentConfig |-> applied.config,
              promptKnowledge |-> FALSE, promptMcp |-> FALSE, yaml |-> FALSE]
        ELSE IF ~r.hasMessage
        THEN [thrown |-> TypeErrorText, agentConfig |-> applied.config,
              promptKnowledge |-> FALSE, promptMcp |-> FALSE, yaml |-> FALSE]
        ELSE [thrown |-> NoText, agentConfig |-> stored,
              promptKnowledge |-> r.promptKnowledgeUpload,
              promptMcp |-> r.promptMcpServer, yaml |-> r.generate_yaml]

\* The catch block: what it makes of the chat history and the error string,
\* and whether it sends the request again (it does not).
ChatCatchStaleHistory(history, errMessage) ==
    [messages |-> Append(SubSeq(history, 1, Len(history) - 1), ChatErrorMessage(errMessage)),
     error |-> ChatErrorString(errMessage),
     resend |-> FALSE]

ChatCatchResends(history, errMessage) ==
    [messages |-> Append(history, ChatErrorMessage(errMessage)),
     error |-> ChatErrorString(errMessage),
     resend |-> TRUE]

ChatCatch(history, errMessage) ==
    [messages |-> Append(history, ChatErrorMessage(errMessage)),
     error |-> ChatErrorString(errMessage),
     resend |-> FALSE]

\* The continuation of call i after `await sendMessage` settles with outcome
\* ChatResponses[k]: the rest of the try block, the catch block and the
\* finally block (unless it awaits fetchYaml).
ChatRequestSettles(i, k) ==
    /\ UNCHANGED outsideChat
    /\ Flushed
    /\ chats[i].pc = "awaitSend"
    /\ event' = "chatResponse"
    /\ LET r == ChatResponses[k]
            out == IF r.ok THEN ProcessResponse(r, chats[i].agentConfig, agentConfig)
                   ELSE [thrown |-> r.message, agentConfig |-> agentConfig,
                         promptKnowledge |-> FALSE, promptMcp |-> FALSE, yaml |-> FALSE]
            withReply == IF r.ok THEN Append(messages, BotMessage(r.message))
                         ELSE messages
        IN  /\ lastResponse' = r
            /\ agentConfig' = out.agentConfig
            /\ showKnowledgeUpload' = (showKnowledgeUpload \/ out.promptKnowledge)
            /\ showMcpServerSelection' = (showMcpServerSelection \/ out.promptMcp)
            /\ showYamlButton' = (showYamlButton \/ out.yaml)
            /\ IF out.thrown # NoText
               THEN /\ messages' = ChatCatch(withReply, out.thrown).messages
                    /\ error' = IF chats[i].mount = mounts
                                THEN ChatCatch(withReply, out.thrown).error
                                ELSE error
               ELSE /\ messages' = withReply
                    /\ UNCHANGED error
            /\ IF out.yaml
               THEN /\ chats' = [chats EXCEPT ![i].pc = "awaitYaml"]
                    /\ UNCHANGED <<isLoading, chatRequests>>
               ELSE IF out.thrown # NoText /\ ChatCatch(withReply, out.thrown).resend
               THEN /\ chatRequests' = chatRequests + 1
                    /\ UNCHANGED <<chats, isLoading>>
               ELSE /\ chats' = [chats EXCEPT ![i].pc = "done"]
                    /\ isLoading' = FALSE
                    /\ UNCHANGED chatRequests
    /\ UNCHANGED <<yamlContent, inputMessage, health>>

\* ----------------------------------------------------------- yamlGenerator

\* `!x` for the string-valued fields of a backend body.
Falsy(x) == x \in {"undefined", "null", ""}

\* obj.f, "undefined" when obj has no such field.
Get(obj, f) == IF f \in DOMAIN obj THEN obj[f] ELSE "undefined"

\* `obj.f || default` for a text field, a number field and a backend string.
TextOr(obj, f, default) ==
    IF f \in DOMAIN obj /\ obj[f] # NoText THEN obj[f] ELSE default

NumberOr(obj, f, default) ==
    IF f \in DOMAIN obj /\ obj[f] # 0 THEN obj[f] ELSE default

StringOr(obj, f, default) ==
    IF f \in DOMAIN obj /\ ~Falsy(obj[f]) THEN obj[f] ELSE default

\* `obj.f?.length > 0` for a list field.
HasItems(obj, f) == f \in DOMAIN obj /\ Len(obj[f]) > 0

UnnamedAgent == <<"Unnamed Agent">>
ClaudeModel == "claude-3-7-sonnet-20250219"
ProjectNamePlaceholder == "__PROJECT_NAME__"
\* new Date().toISOString(): some instant; the model follows one.
CreatedAt == "created_at"

\* The object yamlGenerator.generateYaml builds and hands to yaml.dump, which
\* writes its keys and values in this order; the model keeps the object.
generateYaml(config) ==
    LET head == [name |-> TextOr(config, "name", UnnamedAgent),
                 description |-> TextOr(config, "description", NoText),
                 version |-> "1.0.0",
                 created_at |-> CreatedAt,
                 instruction |-> TextOr(config, "instruction", NoText),
                 config |-> [memory_size |-> NumberOr(config, "memory_size", 10),
                             claude_model |-> ClaudeModel]]
        withTools ==
            IF HasItems(config, "tools")
            THEN SetField(head, "tools",
                    [i \in 1..Len(config.tools) |->
                        [name |-> Get(config.tools[i], "name"),
                         endpoint |-> Get(config.tools[i], "endpoint")]])
            ELSE head
        withServers ==
            IF HasItems(config, "mcp_servers")
            THEN SetField(withTools, "mcp_servers", config.mcp_servers)
            ELSE withTools
    IN  IF "knowledge_base" \in DOMAIN config
        THEN SetField(withServers, "knowledge_base",
                [storage_type |-> Get(config.knowledge_base, "storage_type"),
                 index_info |-> Get(config.knowledge_base, "index_info"),
                 document_count |-> NumberOr(config.knowledge_base, "document_count", 0),
                 project_name |-> StringOr(config.knowledge_base, "project_name",
                                           ProjectNamePlaceholder)])
        ELSE withServers

\* api.sendMessage: the agent_config it puts in the request body.
DefaultKnowledgeBase ==
    [storage_type |-> "llamacloud", index_info |-> "null", project_name |-> "null",
     local_path |-> "null", document_count |-> 0, file_names |-> <<>>]

formatAgentConfigWithoutMemoryDefault(config) ==
    [name |-> TextOr(config, "name", NoText),
     description |-> TextOr(config, "description", NoText),
     instruction |-> TextOr(config, "instruction", NoText),
     memory_size |-> NumberOr(config, "memory_size", 0),
     mode |-> StringOr(config, "mode", "normal"),
     tools |-> IF "tools" \in DOMAIN config THEN config.tools ELSE <<>>,
     knowledge_base |-> IF "knowledge_base" \in DOMAIN config
                        THEN config.knowledge_base ELSE DefaultKnowledgeBase]

formatAgentConfig(config) ==
    [name |-> TextOr(config, "name", NoText),
     description |-> TextOr(config, "description", NoText),
     instruction |-> TextOr(config, "instruction", NoText),
     memory_size |-> NumberOr(config, "memory_size", 10),
     mode |-> StringOr(config, "mode", "normal"),
     tools |-> IF "tools" \in DOMAIN config THEN config.tools ELSE <<>>,
     knowledge_base |-> IF "knowledge_base" \in DOMAIN config
                        THEN config.knowledge_base ELSE DefaultKnowledgeBase]

\* The inner try/catch around `await fetchYaml(agentConfig)`, for a call that
\* closed over `closureConfig`: the YAML of the backend for that object, or
\* on a rejection the one generated locally from it. Nothing is rethrown.
FetchYamlFailurePropagates(ok, closureConfig, previous) ==
    IF ok
    THEN [yamlContent |-> [source |-> "backend", config |-> closureConfig],
          thrown |-> NoText]
    ELSE [yamlContent |-> previous, thrown |-> NetworkErrorText]

FetchYaml(ok, closureConfig, previous) ==
    IF ok
    THEN [yamlContent |-> [source |-> "backend", config |-> closureConfig],
          thrown |-> NoText]
    ELSE [yamlContent |-> [source |-> "local", config |-> closureConfig,
                           document |-> generateYaml(closureConfig)],
          thrown |-> NoText]

\* The continuation of call i after `await fetchYaml(agentConfig)`: the YAML
\* of the backend, or on failure the locally generated one, then finally.
YamlRequestSettles(i) ==
    /\ UNCHANGED outsideChat
    /\ Flushed
    /\ chats[i].pc = "awaitYaml"
    /\ \E ok \in BOOLEAN :
        LET out == FetchYaml(ok, chats[i].agentConfig, yamlContent)
        IN  /\ event' = IF ok THEN "yamlResponse" ELSE "yamlFailure"
            /\ yamlContent' = out.yamlContent
            /\ IF out.thrown # NoText
               THEN /\ messages' = ChatCatch(messages, out.thrown).messages
                    /\ error' = IF chats[i].mount = mounts
                                THEN ChatCatch(messages, out.thrown).error
                                ELSE error
               ELSE UNCHANGED <<messages, error>>
    /\ chats' = [chats EXCEPT ![i].pc = "done"]
    /\ isLoading' = FALSE
    /\ UNCHANGED <<agentConfig, showYamlButton, showKnowledgeUpload,
                   showMcpServerSelection, inputMessage, health,
                   chatRequests, lastResponse>>

\* ----------------------------------------------------------- KnowledgeUpload

\* GET /api/files/<name>: the bodies the model follows, or a rejection.
GetFilesResults ==
    << [ok |-> TRUE, files |-> <<"a.txt">>, has_index |-> FALSE,
        storage_type |-> "undefined", index_info |-> "undefined",
        project_name |-> "undefined", local_path |-> "undefined"],
       [ok |-> TRUE, files |-> <<"a.txt", "b.txt">>, has_index |-> TRUE,
        storage_type |-> "local", index_info |-> "idx-files",
        project_name |-> "undefined", local_path |-> "/data/bot"],
       [ok |-> FALSE, message |-> NetworkErrorText],
       [ok |-> TRUE, files |-> <<"a.txt">>, has_index |-> TRUE,
        storage_type |-> "local", index_info |-> "undefined",
        project_name |-> "undefined", local_path |-> "/data/bot"] >>

\* POST /api/create-<type>-index/<name>: the bodies of a 2xx answer, as
\* response.json() gives them, or a rejection.
CreateIndexBodies ==
    << [ok |-> TRUE, success |-> TRUE, index_info |-> "idx-new",
        document_count |-> 1, file_names |-> <<"a.txt">>,
        local_path |-> "/data/bot", project_name |-> "proj", error |-> NoText],
       [ok |-> TRUE, success |-> TRUE, index_info |-> "undefined",
        document_count |-> 1, file_names |-> <<"a.txt">>,
        local_path |-> "/data/bot", project_name |-> "proj", error |-> NoText],
       [ok |-> TRUE, success |-> FALSE, index_info |-> "undefined",
        document_count |-> 0, file_names |-> <<>>,
        local_path |-> "undefined", project_name |-> "undefined",
        error |-> <<"Index service unavailable">>],
       [ok |-> FALSE, message |-> HttpErrorMessage("createIndex", "500",
            [json |-> TRUE, hasDetail |-> TRUE, detail |-> <<"Invalid", "file", "type">>])] >>

\* api.createIndex after response.json(): success without index_info is
\* turned into a failure.
createIndex(body) ==
    IF body.success /\ Falsy(body.index_info)
    THEN [body EXCEPT !.success = FALSE,
                      !.error = <<"Backend failed to provide valid index information">>]
    ELSE body

\* ConfigPanel renders (or stops rendering) KnowledgeUpload, and the effect on
\* [agentConfig.name] runs: loadFiles() up to its await when there is a name.
KnowledgeUploadEffects ==
    /\ route = "builder"
    /\ health # "idle"
    /\ ~Flushed
    /\ event' = "knowledgeUploadEffects"
    /\ IF ~showKnowledgeUpload
       THEN /\ ku' = [ku EXCEPT !.live = FALSE]
            /\ UNCHANGED <<kuCalls, kuCallsStarted>>
       ELSE LET mounted == IF ku.live THEN ku ELSE FreshKnowledgeUpload(ku.inst + 1)
                loads == agentConfig.name # NoText /\ kuCallsStarted < MaxKnowledgeCalls
            IN  /\ ku' = [mounted EXCEPT !.depName = agentConfig.name,
                                         !.error = IF loads THEN NoText ELSE @]
                /\ kuCalls' = IF loads
                              THEN kuCalls \cup {[op |-> "loadFiles", inst |-> mounted.inst,
                                                  name |-> agentConfig.name]}
                              ELSE kuCalls
                /\ kuCallsStarted' = IF loads THEN kuCallsStarted + 1 ELSE kuCallsStarted
    /\ UNCHANGED <<agentConfig, showKnowledgeUpload, kuTimers>>
    /\ UNCHANGED outsideKnowledge

\* The "Add Knowledge" button of ConfigPanel.
OpenKnowledgeUpload ==
    /\ route = "builder"
    /\ Flushed
    /\ ~showYamlButton /\ ~showKnowledgeUpload
    /\ ku.inst < MaxMounts
    /\ showKnowledgeUpload' = TRUE
    /\ event' = "openKnowledgeUpload"
    /\ UNCHANGED <<agentConfig, knowledgeVars>>
    /\ UNCHANGED outsideKnowledge

\* handleCancel: the close and cancel buttons.
HandleCancel ==
    /\ Flushed
    /\ ku.live
    /\ ~(ku.uploading \/ ku.creatingIndex \/ ku.savingLocal)
    /\ ku' = [ku EXCEPT !.error = NoText]
    /\ showKnowledgeUpload' = FALSE
    /\ event' = "handleCancel"
    /\ UNCHANGED <<agentConfig, kuCalls, kuCallsStarted, kuTimers>>
    /\ UNCHANGED outsideKnowledge

\* A local setState of instance `inst`: dropped when that instance is gone.
KuSet(inst, updated) == IF ku.live /\ ku.inst = inst THEN updated ELSE ku

\* What follows `await loadFiles()` in the handler that called it: the
\* finally block of handleFileSelect clears `uploading`.
AfterReload(call, updated) ==
    IF "after" \in DOMAIN call /\ call.after = "upload"
    THEN [updated EXCEPT !.uploading = FALSE]
    ELSE updated

\* loadFiles after `await getFiles(agentConfig.name)`.
LoadFilesSettles(call) ==
    /\ Flushed
    /\ call \in kuCalls /\ call.op = "loadFiles"
    /\ event' = "loadFilesResponse"
    /\ kuCalls' = kuCalls \ {call}
    /\ \E k \in 1..Len(GetFilesResults) :
        LET result == GetFilesResults[k] IN
        IF ~result.ok
        THEN /\ ku' = KuSet(call.inst, AfterReload(call,
                        [ku EXCEPT !.error = <<"Error loading files: ">> \o result.message]))
             /\ UNCHANGED agentConfig
        ELSE /\ ku' = KuSet(call.inst, AfterReload(call,
                        [ku EXCEPT !.files = result.files, !.hasIndex = result.has_index]))
             /\ agentConfig' =
                    IF result.has_index
                    THEN updateKnowledgeBase(agentConfig,
                            [storage_type |-> result.storage_type,
                             index_info |-> result.index_info,
                             project_name |-> result.project_name,
                             document_count |-> Len(result.files),
                             file_names |-> result.files,
                             sanitized_name |-> sanitizeAgentName(call.name)])
                    ELSE agentConfig
    /\ UNCHANGED <<showKnowledgeUpload, kuCallsStarted, kuTimers>>
    /\ UNCHANGED outsideKnowledge

\* handleCreateLocalIndex / handleCreateLlamaIndex up to `await createIndex`.
HandleCreateIndex(type) ==
    /\ Flushed
    /\ ku.live /\ ~ku.success /\ ~ku.hasIndex
    /\ ~ku.savingLocal /\ ~ku.creatingIndex /\ Len(ku.files) > 0
    /\ kuCallsStarted < MaxKnowledgeCalls
    /\ event' = "handleCreateIndex"
    /\ ku' = [ku EXCEPT !.error = NoText,
                        !.savingLocal = IF type = "local" THEN TRUE ELSE @,
                        !.creatingIndex = IF type = "llamacloud" THEN TRUE ELSE @]
    /\ agentConfig' = updateKnowledgeStorage(agentConfig,
                            [type |-> type, local_path |-> "undefined"])
    /\ kuCalls' = kuCalls \cup {[op |-> "createIndex", inst |-> ku.inst,
                                 name |-> agentConfig.name, type |-> type,
                                 knowledgeBaseBefore |-> agentConfig.knowledge_base]}
    /\ kuCallsStarted' = kuCallsStarted + 1
    /\ UNCHANGED <<showKnowledgeUpload, kuTimers>>
    /\ UNCHANGED outsideKnowledge

\* How an index-creation attempt ends: a rejection, a result with success
\* false, a 2xx body with success but no index_info, or an index.
CreateIndexEvent(body) ==
    IF ~body.ok THEN "createIndexRejected"
    ELSE IF ~body.success THEN "createIndexFailed"
    ELSE IF Falsy(body.index_info) THEN "createIndexWithoutIndexInfo"
    ELSE "createIndexResponse"

\* The two handlers after `await createIndex(agentConfig.name, type)`.
CreateIndexSettles(call) ==
    /\ Flushed
    /\ call \in kuCalls /\ call.op = "createIndex"
    /\ kuCalls' = kuCalls \ {call}
    /\ \E k \in 1..Len(CreateIndexBodies) :
        LET body == CreateIndexBodies[k]
            done == [ku EXCEPT !.savingLocal = IF call.type = "local" THEN FALSE ELSE @,
                               !.creatingIndex = IF call.type = "llamacloud" THEN FALSE ELSE @]
        IN
        /\ event' = CreateIndexEvent(body)
        /\ IF ~body.ok
           THEN /\ ku' = KuSet(call.inst,
                           [done EXCEPT !.error =
                               (IF call.type = "local"
                                THEN <<"Error saving to local storage: ">>
                                ELSE <<"Error creating index: ">>) \o body.message])
                /\ UNCHANGED <<agentConfig, kuTimers>>
           ELSE LET result == createIndex(body) IN
                IF ~result.success
                THEN /\ ku' = KuSet(call.inst,
                           [done EXCEPT !.error =
                               IF result.error # NoText THEN result.error
                               ELSE IF call.type = "local"
                                    THEN <<"Failed to save to local storage">>
                                    ELSE <<"LlamaIndex will be supported soon!">>])
                     /\ UNCHANGED <<agentConfig, kuTimers>>
                ELSE IF Falsy(result.index_info)
                THEN /\ ku' = KuSet(call.inst,
                           [done EXCEPT !.error =
                               <<"Backend did not return a valid index_info.">>])
                     /\ UNCHANGED <<agentConfig, kuTimers>>
                ELSE /\ agentConfig' = updateKnowledgeBase(agentConfig,
                           [storage_type |-> call.type,
                            index_info |-> result.index_info,
                            project_name |-> IF call.type = "local" THEN "undefined"
                                             ELSE result.project_name,
                            document_count |-> result.document_count,
                            file_names |-> result.file_names,
                            sanitized_name |-> sanitizeAgentName(call.name)])
                     /\ ku' = KuSet(call.inst,
                           [done EXCEPT !.success = TRUE, !.hasIndex = TRUE])
                     /\ kuTimers' = kuTimers \cup {call.inst}
    /\ UNCHANGED <<showKnowledgeUpload, kuCallsStarted>>
    /\ UNCHANGED outsideKnowledge

\* POST /api/upload-file and DELETE of a file: success, a result with
\* success false, a rejection.
FileCallResults ==
    << [ok |-> TRUE, success |-> TRUE],
       [ok |-> TRUE, success |-> FALSE, error |-> <<"File rejected">>],
       [ok |-> FALSE, message |-> NetworkErrorText] >>

\* The uploads and removals under way, their reloads of the file list included.
FileCallsPending ==
    Cardinality({ c \in kuCalls : c.op \in {"uploadFile", "removeFile"}
                                    \/ "after" \in DOMAIN c })

\* The file input is rendered and enabled.
FileInputEnabled == ku.live /\ ~ku.success /\ ~ku.hasIndex /\ ~ku.uploading

\* The remove button of a listed file is rendered and enabled.
RemoveButtonEnabled ==
    /\ ku.live /\ ~ku.success /\ ~ku.hasIndex /\ Len(ku.files) > 0
    /\ ~(ku.uploading \/ ku.creatingIndex \/ ku.savingLocal)

\* handleFileSelect up to `await uploadFile(formData)`: the user picked a file.
HandleFileSelect ==
    /\ Flushed
    /\ FileInputEnabled
    /\ Trim(agentConfig.name) # NoText => FileCallsPending < MaxFileCalls
    /\ event' = "handleFileSelect"
    /\ IF Trim(agentConfig.name) = NoText
       THEN /\ ku' = [ku EXCEPT !.error =
                        <<"Please name your agent before uploading documents.">>]
            /\ UNCHANGED kuCalls
       ELSE /\ ku' = [ku EXCEPT !.uploading = TRUE, !.error = NoText]
            /\ kuCalls' = kuCalls \cup {[op |-> "uploadFile", inst |-> ku.inst,
                                         name |-> agentConfig.name]}
    /\ UNCHANGED <<agentConfig, showKnowledgeUpload, kuCallsStarted, kuTimers>>
    /\ UNCHANGED outsideKnowledge

\* handleRemoveFile up to `await removeFile(agentConfig.name, fileName)`.
HandleRemoveFile(fileName) ==
    /\ Flushed
    /\ RemoveButtonEnabled
    /\ Includes(ku.files, fileName)
    /\ FileCallsPending < MaxFileCalls
    /\ event' = "handleRemoveFile"
    /\ ku' = [ku EXCEPT !.error = NoText]
    /\ kuCalls' = kuCalls \cup {[op |-> "removeFile", inst |-> ku.inst,
                                 name |-> agentConfig.name, file |-> fileName]}
    /\ UNCHANGED <<agentConfig, showKnowledgeUpload, kuCallsStarted, kuTimers>>
    /\ UNCHANGED outsideKnowledge

\* handleFileSelect after `await uploadFile`, handleRemoveFile after `await
\* removeFile`: on success loadFiles() runs up to its await; otherwise the
\* error is shown (and the finally block of handleFileSelect runs).
FileCallSettles(call, k) ==
    /\ Flushed
    /\ call \in kuCalls /\ call.op \in {"uploadFile", "removeFile"}
    /\ event' = "fileCallResponse"
    /\ LET result == FileCallResults[k]
           upload == call.op = "uploadFile"
           done == IF upload THEN [ku EXCEPT !.uploading = FALSE] ELSE ku
       IN  IF result.ok /\ result.success
           THEN /\ ku' = KuSet(call.inst, [ku EXCEPT !.error = NoText])
                /\ kuCalls' = (kuCalls \ {call}) \cup
                        {[op |-> "loadFiles", inst |-> call.inst, name |-> call.name,
                          after |-> IF upload THEN "upload" ELSE "remove"]}
           ELSE /\ ku' = KuSet(call.inst,
                        [done EXCEPT !.error =
                            IF result.ok THEN result.error
                            ELSE (IF upload THEN <<"Error uploading file: ">>
                                  ELSE <<"Error removing file: ">>) \o result.message])
                /\ kuCalls' = kuCalls \ {call}
    /\ UNCHANGED <<agentConfig, showKnowledgeUpload, kuCallsStarted, kuTimers>>
    /\ UNCHANGED outsideKnowledge

\* The 3000 ms timer set after a successful index creation fires.
AutoCloseTimerFires(inst) ==
    /\ Flushed
    /\ inst \in kuTimers
    /\ kuTimers' = kuTimers \ {inst}
    /\ showKnowledgeUpload' = FALSE
    /\ event' = "autoCloseTimer"
    /\ UNCHANGED <<agentConfig, ku, kuCalls, kuCallsStarted>>
    /\ UNCHANGED outsideKnowledge

\* ----------------------------------------------------------------- TestAgent

\* The useState initial values of a TestAgent instance. `live` is whether the
\* instance is mounted; Null stands for null.
FreshTestAgent(mount) ==
    [mount |-> mount, live |-> TRUE,
     agentConfig |-> Null, messages |-> <<>>, inputMessage |-> NoText,
     isLoading |-> FALSE, error |-> NoText, yamlFile |-> Null,
     hasKnowledgeBase |-> FALSE, knowledgeBaseType |-> "null",
     isEditMode |-> FALSE, isSaving |-> FALSE,
     activeTab |-> "info", logs |-> <<>>, isLoadingLogs |-> FALSE,
     effectTab |-> "unset"]

NoTestAgent == [FreshTestAgent(0) EXCEPT !.live = FALSE]

\* A local setState of the instance mounted as number `mount`: dropped when
\* that instance is gone.
TaSet(mount, updated) == IF ta.live /\ ta.mount = mount THEN updated ELSE ta

\* The files the user may pick, with what yaml.load makes of their text:
\* an object, an exception (malformed YAML), or undefined (an empty file).
TestFiles ==
    << [name |-> "agent.yaml", load |-> "object",
        config |-> [name |-> <<"B", "o", "t">>, description |-> <<"helper">>,
                    config |-> [memory_size |-> 10],
                    knowledge_base |-> [storage_type |-> "local", index_info |-> "idx-1"]]],
       [name |-> "plain.yaml", load |-> "object",
        config |-> [name |-> NoText, description |-> NoText, memory_size |-> 10,
                    knowledge_base |-> Null]],
       [name |-> "broken.yaml", load |-> "throws"],
       [name |-> "empty.yaml", load |-> "undefined"] >>

InvalidYamlText ==
    <<"Invalid YAML file. Please upload a valid agent configuration.">>
ReadErrorText == <<"Error reading file. Please try again.">>

\* The greeting handleFileUpload and saveConfigChanges put into the chat.
TestWelcomeMessage(config, hasKnowledge) ==
    [role |-> "assistant",
     content |-> <<"Hello! I am ">>
                 \o (IF config.name # NoText THEN config.name ELSE <<"your agent">>)
                 \o <<". ">>
                 \o (IF config.description # NoText THEN config.description
                     ELSE <<"How can I help you today?">>)
                 \o (IF hasKnowledge THEN <<"I have access to a knowledge base">>
                     ELSE NoText)]

\* The upload prompt with the file input is rendered.
UploadPromptRendered == ta.live /\ ta.agentConfig = Null /\ ta.yamlFile = Null

\* handleFileUpload: the user picks a file in the file input.
HandleFileUpload(f) ==
    /\ route = "test" /\ Flushed /\ UploadPromptRendered
    /\ ta' = [ta EXCEPT !.yamlFile = [name |-> TestFiles[f].name]]
    /\ taReaders' = taReaders \cup {[mount |-> ta.mount, file |-> f]}
    /\ event' = "handleFileUpload"
    /\ UNCHANGED <<taChats, taRequests>>
    /\ UNCHANGED outsideTest

\* reader.onload (the try block and its catch), or reader.onerror.
FileReaderSettles(reader, readOk) ==
    /\ Flushed
    /\ reader \in taReaders
    /\ taReaders' = taReaders \ {reader}
    /\ event' = "fileRead"
    /\ LET file == TestFiles[reader.file] IN
        IF ~readOk
        THEN ta' = TaSet(reader.mount, [ta EXCEPT !.error = ReadErrorText])
        ELSE IF file.load # "object"
        THEN ta' = TaSet(reader.mount, [ta EXCEPT !.error = InvalidYamlText])
        ELSE LET hasKnowledge == /\ file.config.knowledge_base # Null
                                 /\ ~Falsy(file.config.knowledge_base.index_info)
             IN  ta' = TaSet(reader.mount,
                        [ta EXCEPT !.agentConfig = file.config,
                                   !.hasKnowledgeBase = hasKnowledge,
                                   !.knowledgeBaseType =
                                        IF hasKnowledge
                                        THEN file.config.knowledge_base.storage_type
                                        ELSE "null",
                                   !.messages =
                                        <<TestWelcomeMessage(file.config, hasKnowledge)>>,
                                   !.error = NoText])
    /\ UNCHANGED <<taChats, taRequests>>
    /\ UNCHANGED outsideTest

\* The chat textarea of TestAgent accepts keys.
TestInputEnabled ==
    ta.live /\ ~ta.isLoading /\ ta.agentConfig # Null /\ ~ta.isEditMode

\* The user edits the test chat input.
TestTypeInput ==
    /\ route = "test" /\ Flushed /\ TestInputEnabled
    /\ \E text \in Inputs : ta' = [ta EXCEPT !.inputMessage = text]
    /\ event' = "testSetInputMessage"
    /\ UNCHANGED <<taReaders, taChats, taRequests>>
    /\ UNCHANGED outsideTest

\* The Edit and Cancel buttons of the Agent Information tab.
ToggleEditMode ==
    /\ route = "test" /\ Flushed
    /\ ta.live /\ ta.activeTab = "info" /\ ta.agentConfig # Null
    /\ ta.isEditMode => ~ta.isSaving
    /\ ta' = [ta EXCEPT !.isEditMode = ~ta.isEditMode]
    /\ event' = "toggleEditMode"
    /\ UNCHANGED <<taReaders, taChats, taRequests>>
    /\ UNCHANGED outsideTest

\* updateConfigField: `field` is the dotted name split at the dot.
updateConfigField(isEditMode, prev, field, value) ==
    IF ~isEditMode THEN prev
    ELSE IF Len(field) = 2
    THEN SetField(prev, field[1], SetField(prev[field[1]], field[2], value))
    ELSE SetField(prev, field[1], value)

\* parseInt on the text of the number input (digits; the model does not
\* follow the cleared input, which parses to NaN).
DigitValue(c) ==
    CASE c = "0" -> 0 [] c = "1" -> 1 [] c = "2" -> 2 [] c = "3" -> 3 [] c = "4" -> 4
      [] c = "5" -> 5 [] c = "6" -> 6 [] c = "7" -> 7 [] c = "8" -> 8 [] c = "9" -> 9

RECURSIVE ParseDigits(_, _)
ParseDigits(text, acc) ==
    IF text = <<>> THEN acc
    ELSE ParseDigits(Tail(text), 10 * acc + DigitValue(Head(text)))

parseInt(text) == ParseDigits(text, 0)

\* What the user may type into the Memory Size input.
TypedSizes == { <<"0">>, <<"5", "0">>, <<"5", "0", "0">> }

\* onChange of the Memory Size input, rendered in edit mode.
MemorySizeInput ==
    /\ route = "test" /\ Flushed
    /\ ta.live /\ ta.activeTab = "info" /\ ta.agentConfig # Null /\ ta.isEditMode
    /\ \E text \in TypedSizes :
         ta' = [ta EXCEPT !.agentConfig =
                   updateConfigField(ta.isEditMode, ta.agentConfig,
                        IF "config" \in DOMAIN ta.agentConfig
                        THEN <<"config", "memory_size">> ELSE <<"memory_size">>,
                        parseInt(text))]
    /\ event' = "updateConfigField"
    /\ UNCHANGED <<taReaders, taChats, taRequests>>
    /\ UNCHANGED outsideTest

\* The guard on the first line of TestAgent.handleSendMessage.
TestSendGuard(input, loading, config) ==
    Trim(input) # NoText /\ ~loading /\ config # Null

\* The outcomes of a test chat request the model follows: a reply, a 2xx body
\* without a message field, a network failure, a non-2xx answer.
TestChatResults ==
    << [ok |-> TRUE, hasMessage |-> TRUE, message |-> <<"Hi", "there">>],
       [ok |-> TRUE, hasMessage |-> FALSE, message |-> <<"undefined">>],
       [ok |-> FALSE, message |-> NetworkErrorText],
       [ok |-> FALSE, message |-> HttpErrorMessage("testAgentChat", "404",
            [json |-> TRUE, hasDetail |-> TRUE, detail |-> <<"Agent", "not", "found">>])] >>

TestErrorMessage(errMessage) ==
    [role |-> "assistant",
     content |-> <<"Sorry, I encountered an error: ">> \o errMessage
                 \o <<". Please try again.">>]
TestErrorString(errMessage) == <<"Error communicating with the agent: ">> \o errMessage

\* TestAgent.handleSendMessage up to `await testAgentChat(...)`: the user
\* presses Enter in the (enabled) textarea.
TestHandleSendMessage ==
    /\ route = "test" /\ Flushed /\ TestInputEnabled
    /\ event' = "testHandleSendMessage"
    /\ IF ~TestSendGuard(ta.inputMessage, ta.isLoading, ta.agentConfig)
       THEN UNCHANGED testVars
       ELSE /\ taRequests < MaxTestSends
            /\ ta' = [ta EXCEPT !.messages = Append(@, UserMessage(ta.inputMessage)),
                                !.inputMessage = NoText,
                                !.isLoading = TRUE,
                                !.error = NoText]
            /\ taRequests' = taRequests + 1
            /\ taChats' = taChats \cup
                    {[mount |-> ta.mount, id |-> taRequests + 1,
                      message |-> ta.inputMessage, agent_config |-> ta.agentConfig,
                      history |-> ta.messages]}
            /\ UNCHANGED taReaders
    /\ UNCHANGED outsideTest

\* The continuation after `await testAgentChat` settles with TestChatResults[k]:
\* the rest of the try block, or the catch block, and the finally block.
TestChatSettles(call, k) ==
    /\ Flushed
    /\ call \in taChats
    /\ taChats' = taChats \ {call}
    /\ event' = "testChatResponse"
    /\ LET r == TestChatResults[k] IN
        IF r.ok
        THEN ta' = TaSet(call.mount,
                    [ta EXCEPT !.messages = Append(@, BotMessage(r.message)),
                               !.isLoading = FALSE])
        ELSE ta' = TaSet(call.mount,
                    [ta EXCEPT !.error = TestErrorString(r.message),
                               !.messages = Append(@, TestErrorMessage(r.message)),
                               !.isLoading = FALSE])
    /\ UNCHANGED <<taReaders, taRequests>>
    /\ UNCHANGED outsideTest

\* ------------------------------------------------------ TestAgent: log tail

\* The number of lines the stream callback keeps: combinedLogs.slice(-300).
LogWindow == 300

\* Log lines are numbered; Lines(a, b) is the list of lines a..b.
Lines(a, b) == [i \in 1..(b - a + 1) |-> a + i - 1]

\* array.slice(-n)
SliceLast(list, n) ==
    IF Len(list) <= n THEN list ELSE SubSeq(list, Len(list) - n + 1, Len(list))

\* data.logs.filter(newLog => !prevLogs.some(prevLog => prevLog === newLog))
FilterNew(prevLogs, dataLogs) ==
    SelectSeq(dataLogs, LAMBDA newLog : ~(\E i \in 1..Len(prevLogs) : prevLogs[i] = newLog))

\* The state update of the stream callback.
MergeLogs(prevLogs, dataLogs) ==
    SliceLast(prevLogs \o FilterNew(prevLogs, dataLogs), LogWindow)

\* What api.fetchLogs resolves or rejects with: the lines of the backend's
\* log file (fewer than, or more than, the window; or none), or a rejection.
FetchLogsResults ==
    << [ok |-> TRUE, logs |-> Lines(1, LogWindow - 1)],
       [ok |-> TRUE, logs |-> Lines(1, LogWindow + 1)],
       [ok |-> TRUE, logs |-> <<>>],
       [ok |-> FALSE] >>

\* The data of a stream event: new lines, lines already shown, the same new
\* line twice, or an event without a logs field.
StreamData ==
    << [hasLogs |-> TRUE, logs |-> <<LogWindow, LogWindow + 1>>],
       [hasLogs |-> TRUE, logs |-> <<1, 2>>],
       [hasLogs |-> TRUE, logs |-> <<LogWindow + 2, LogWindow + 2>>],
       [hasLogs |-> FALSE, logs |-> <<>>] >>

\* The run of the [activeTab] effect that is live, if any (0 for none).
ActiveRun ==
    IF \E r \in 1..Len(logRuns) : logRuns[r].isActive
    THEN CHOOSE r \in 1..Len(logRuns) : logRuns[r].isActive
    ELSE 0

\* The cleanup function of run r: isActive = false, and eventSource.close()
\* when eventSource is not null.
CleanupRuns(runs, r) ==
    IF r = 0 THEN runs ELSE [runs EXCEPT ![r].isActive = FALSE]
CleanupStreams(strs, r) ==
    IF r = 0 \/ logRuns[r].eventSource = 0 THEN strs
    ELSE [strs EXCEPT ![logRuns[r].eventSource].state = "closed"]

\* The [activeTab] effect: the cleanup of the previous run, then setupSSE up
\* to `await fetchLogs()` when the logs tab is the active one.
LogsEffect ==
    /\ route = "test" /\ ta.live
    /\ ta.effectTab # ta.activeTab
    /\ event' = "logsEffect"
    /\ streams' = CleanupStreams(streams, ActiveRun)
    /\ IF ta.activeTab = "logs"
       THEN /\ logRuns' = Append(CleanupRuns(logRuns, ActiveRun),
                                 [mount |-> ta.mount, isActive |-> TRUE, eventSource |-> 0])
            /\ logCalls' = logCalls \cup
                    {[op |-> "setupSSE", id |-> logFetches + 1, mount |-> ta.mount,
                      run |-> Len(logRuns) + 1]}
            /\ logFetches' = logFetches + 1
            /\ ta' = [ta EXCEPT !.effectTab = ta.activeTab, !.isLoadingLogs = TRUE]
       ELSE /\ logRuns' = CleanupRuns(logRuns, ActiveRun)
            /\ ta' = [ta EXCEPT !.effectTab = ta.activeTab]
            /\ UNCHANGED <<logCalls, logFetches>>
    /\ UNCHANGED logDeliveries
    /\ UNCHANGED outsideLogs

\* The "Agent Information" tab button.
SelectInfoTab ==
    /\ route = "test" /\ Flushed /\ ta.live
    /\ ~ta.isLoading
    /\ ta' = [ta EXCEPT !.activeTab = "info"]
    /\ event' = "selectInfoTab"
    /\ UNCHANGED logVars
    /\ UNCHANGED outsideLogs

\* refreshLogs up to `await fetchLogs()`.
StartRefresh(agent) ==
    /\ ta' = [agent EXCEPT !.isLoadingLogs = TRUE]
    /\ logCalls' = logCalls \cup
            {[op |-> "refreshLogs", id |-> logFetches + 1, mount |-> ta.mount, run |-> 0]}
    /\ logFetches' = logFetches + 1
    /\ UNCHANGED <<logRuns, streams, logDeliveries>>

\* The "System Logs" tab button: setActiveTab('logs') and refreshLogs(). The
\* effect that follows sends a fetch of its own.
SelectLogsTab ==
    /\ route = "test" /\ Flushed /\ ta.live
    /\ ~ta.isLoading
    /\ logFetches + (IF ta.activeTab = "logs" THEN 1 ELSE 2) <= MaxLogFetches
    /\ StartRefresh([ta EXCEPT !.activeTab = "logs"])
    /\ event' = "selectLogsTab"
    /\ UNCHANGED outsideLogs

\* The refresh button of the logs tab.
RefreshLogs ==
    /\ route = "test" /\ Flushed /\ ta.live
    /\ ta.activeTab = "logs" /\ ~ta.isLoadingLogs
    /\ logFetches < MaxLogFetches
    /\ StartRefresh(ta)
    /\ event' = "refreshLogs"
    /\ UNCHANGED outsideLogs

\* refreshLogs after `await fetchLogs()`, and its finally block.
RefreshSettles(call, k) ==
    /\ Flushed
    /\ call \in logCalls /\ call.op = "refreshLogs"
    /\ logCalls' = logCalls \ {call}
    /\ event' = "refreshResponse"
    /\ LET response == FetchLogsResults[k] IN
        ta' = TaSet(call.mount,
                [ta EXCEPT !.logs = IF response.ok THEN response.logs ELSE @,
                           !.isLoadingLogs = FALSE])
    /\ UNCHANGED <<logRuns, logFetches, streams, logDeliveries>>
    /\ UNCHANGED outsideLogs

\* connectToLogsSSE: a new EventSource, whose handlers belong to run `r`.
\* `origin` is the EventSource whose readyState the onerror handler reads:
\* the one connectToLogsSSE created (0 here: this one itself).
OpenStream(strs, r, origin) ==
    Append(strs, [run |-> r, state |-> "open",
                  origin |-> IF origin = 0 THEN Len(strs) + 1 ELSE origin])

\* setupSSE of run call.run after `await fetchLogs()`: the rest of the try
\* block, or the catch block, and the finally block.
SetupSettles(call, k) ==
    /\ Flushed
    /\ call \in logCalls /\ call.op = "setupSSE"
    /\ logCalls' = logCalls \ {call}
    /\ event' = "setupResponse"
    /\ LET response == FetchLogsResults[k]
            isActive == logRuns[call.run].isActive
        IN  /\ ta' = IF isActive
                     THEN [ta EXCEPT !.logs = IF response.ok THEN response.logs ELSE @,
                                     !.isLoadingLogs = FALSE]
                     ELSE ta
            /\ IF response.ok
               THEN /\ Len(streams) < MaxStreams
                    /\ streams' = OpenStream(streams, call.run, 0)
                    /\ logRuns' = [logRuns EXCEPT ![call.run].eventSource = Len(streams) + 1]
               ELSE UNCHANGED <<streams, logRuns>>
    /\ UNCHANGED <<logFetches, logDeliveries>>
    /\ UNCHANGED outsideLogs

\* eventSource.onmessage: the callback setupSSE passed to connectToLogsSSE.
StreamMessage(sid, d) ==
    /\ Flushed
    /\ sid \in 1..Len(streams) /\ streams[sid].state = "open"
    /\ logDeliveries < MaxLogDeliveries
    /\ logDeliveries' = logDeliveries + 1
    /\ event' = "streamMessage"
    /\ ta' = IF StreamData[d].hasLogs /\ logRuns[streams[sid].run].isActive
             THEN [ta EXCEPT !.logs = MergeLogs(@, StreamData[d].logs)]
             ELSE ta
    /\ UNCHANGED <<logRuns, logCalls, logFetches, streams>>
    /\ UNCHANGED outsideLogs

\* eventSource.onerror. The browser either keeps the EventSource (it
\* reconnects by itself) or closes it; the handler then opens a new
\* EventSource when the one connectToLogsSSE created is closed.
StreamError(sid, closes) ==
    /\ Flushed
    /\ sid \in 1..Len(streams) /\ streams[sid].state = "open"
    /\ event' = "streamError"
    /\ LET after == IF closes THEN [streams EXCEPT ![sid].state = "closed"] ELSE streams
        IN  IF after[streams[sid].origin].state = "closed"
            THEN /\ Len(streams) < MaxStreams
                 /\ streams' = OpenStream(after, streams[sid].run, streams[sid].origin)
            ELSE streams' = after
    /\ UNCHANGED <<ta, logRuns, logCalls, logFetches, logDeliveries>>
    /\ UNCHANGED outsideLogs

\* ------------------------------------------------- ConfigPanel: MCP servers

\* A local setState of the ConfigPanel mounted as number `mount`.
PanelSet(mount, updated) == IF panel.live /\ panel.mount = mount THEN updated ELSE panel

\* loadMcpServers up to `await fetch(apiUrl)`, called by timer `t`.
LoadMcpServers(t) ==
    /\ mcpRequests < MaxMcpRequests
    /\ mcpRequests' = mcpRequests + 1
    /\ panelCalls' = panelCalls \cup
            {[id |-> mcpRequests + 1, mount |-> t.mount, by |-> t.kind]}
    /\ panel' = PanelSet(t.mount, [panel EXCEPT !.requested = @ + 1])

\* The 500 ms timeout of the mount effect fires.
DelayedLoadFires(t) ==
    /\ Flushed
    /\ t \in panelTimers /\ t.kind = "timeout"
    /\ panelTimers' = panelTimers \ {t}
    /\ LoadMcpServers(t)
    /\ event' = "mcpTimeout"
    /\ UNCHANGED outsidePanel

\* The 10 s interval of the mount effect fires.
RetryIntervalFires(t) ==
    /\ Flushed
    /\ t \in panelTimers /\ t.kind = "interval"
    /\ IF Len(t.mcpServers) = 0
       THEN LoadMcpServers(t)
       ELSE UNCHANGED <<panel, panelCalls, mcpRequests>>
    /\ event' = "mcpInterval"
    /\ UNCHANGED panelTimers
    /\ UNCHANGED outsidePanel

\* What the list request ends with: a list of servers, a 2xx body without
\* servers, a non-2xx status, a network error.
McpListResults ==
    << [ok |-> TRUE, servers |-> <<"github", "slack">>],
       [ok |-> TRUE, servers |-> <<>>],
       [ok |-> FALSE, servers |-> <<>>],
       [ok |-> FALSE, servers |-> <<>>, network |-> TRUE] >>

\* loadMcpServers after `await fetch(apiUrl)`: every path ends in setMcpServers.
LoadMcpServersSettles(call, k) ==
    /\ Flushed
    /\ call \in panelCalls
    /\ panelCalls' = panelCalls \ {call}
    /\ panel' = PanelSet(call.mount,
                    [panel EXCEPT !.mcpServers =
                        IF McpListResults[k].ok THEN McpListResults[k].servers ELSE <<>>])
    /\ event' = "mcpListResponse"
    /\ UNCHANGED <<panelTimers, mcpRequests>>
    /\ UNCHANGED outsidePanel

\* toggleServerSelection: the checkbox of a listed server is clicked.
ToggleServerSelection(serverName) ==
    /\ route = "builder" /\ Flushed /\ panel.live
    /\ \E i \in 1..Len(panel.mcpServers) : panel.mcpServers[i] = serverName
    /\ panel' = [panel EXCEPT !.selectedServers =
                    IF Includes(@, serverName)
                    THEN SelectSeq(@, LAMBDA name : name # serverName)
                    ELSE Append(@, serverName)]
    /\ event' = "toggleServerSelection"
    /\ UNCHANGED <<panelTimers, panelCalls, mcpRequests>>
    /\ UNCHANGED outsidePanel

\* ---------------------------------------------------------- App: the router

\* A nav link of App (or TestAgent's back button): the mounted page unmounts,
\* its effect cleanups run, and the other page is constructed.
NavigateTo(page) ==
    /\ Flushed
    /\ route # page
    /\ mounts < MaxPageMounts
    /\ route' = page
    /\ mounts' = mounts + 1
    /\ event' = "navigate"
    /\ IF page = "test"
       THEN /\ panel' = [panel EXCEPT !.live = FALSE]
            /\ panelTimers' = PanelCleanup(panelTimers, panel.mount)
            /\ ku' = [ku EXCEPT !.live = FALSE]
            /\ inputMessage' = NoText
            /\ error' = NoText
            /\ health' = "idle"
            /\ orphanHealthChecks' =
                    IF health = "pending" THEN orphanHealthChecks + 1
                    ELSE orphanHealthChecks
            /\ ta' = FreshTestAgent(mounts + 1)
            /\ UNCHANGED <<logRuns, streams>>
       ELSE /\ ta' = NoTestAgent
            /\ logRuns' = CleanupRuns(logRuns, ActiveRun)
            /\ streams' = CleanupStreams(streams, ActiveRun)
            /\ UNCHANGED <<panel, panelTimers, ku, inputMessage, error, health,
                           orphanHealthChecks>>
    /\ UNCHANGED <<agentConfig, messages, isLoading, showYamlButton, yamlContent,
                   showKnowledgeUpload, showMcpServerSelection, chats,
                   chatRequests, lastResponse>>
    /\ UNCHANGED <<kuCalls, kuCallsStarted, kuTimers, panelCalls, mcpRequests>>
    /\ UNCHANGED <<apiVars, taReaders, taChats, taRequests,
                   logCalls, logFetches, logDeliveries>>

\* checkHealth of an AgentBuilder that is no longer mounted settles: its
\* finally block still clears the shared loading flag.
OrphanHealthCheckSettles ==
    /\ Flushed
    /\ orphanHealthChecks > 0
    /\ orphanHealthChecks' = orphanHealthChecks - 1
    /\ isLoading' = FALSE
    /\ event' = "healthCheck"
    /\ UNCHANGED <<agentConfig, messages, showYamlButton, yamlContent,
                   showKnowledgeUpload, showMcpServerSelection, inputMessage,
                   error, chats, health, chatRequests, lastResponse>>
    /\ UNCHANGED <<knowledgeVars, panelVars, apiVars, route, mounts, testVars, logVars>>

InitPanel ==
    /\ panel = NoConfigPanel
    /\ panelTimers = {}
    /\ panelCalls = {}
    /\ mcpRequests = 0

InitLogs ==
    /\ logRuns = <<>>
    /\ logCalls = {}
    /\ logFetches = 0
    /\ streams = <<>>
    /\ logDeliveries = 0

InitTest ==
    /\ ta = IF route = "test" THEN FreshTestAgent(1) ELSE NoTestAgent
    /\ taReaders = {}
    /\ taChats = {}
    /\ taRequests = 0

InitBuilderWith(config) ==
    /\ agentConfig = config
    /\ messages = <<>>
    /\ isLoading = FALSE
    /\ showYamlButton = FALSE
    /\ yamlContent = NoYaml
    /\ showKnowledgeUpload = FALSE
    /\ showMcpServerSelection = FALSE
    /\ inputMessage = NoText
    /\ error = NoText
    /\ chats = [i \in 1..MaxSends |-> IdleChat]
    /\ health = "idle"
    /\ chatRequests = 0
    /\ lastResponse = NoResponse

InitBuilder == InitBuilderWith(InitialAgentConfig)

InitKnowledge ==
    /\ ku = NoKnowledgeUpload
    /\ kuCalls = {}
    /\ kuCallsStarted = 0
    /\ kuTimers = {}

NoApiCall == [api |-> "none"]

InitApi == apiCall = NoApiCall

InitNav(page) ==
    /\ route = page
    /\ mounts = 1
    /\ orphanHealthChecks = 0

\* The state after construction with the browser at `page`.
InitAt(page) ==
    /\ InitBuilder
    /\ InitKnowledge
    /\ InitApi
    /\ InitNav(page)
    /\ InitTest
    /\ InitLogs
    /\ InitPanel
    /\ event = "init"

Init == InitAt("builder")

ChatSettles ==
    \E i \in 1..MaxSends : \E k \in 1..Len(ChatResponses) : ChatRequestSettles(i, k)
YamlSettles == \E i \in 1..MaxSends : YamlRequestSettles(i)

\* The builder chat with every outcome of a chat request; KnowledgeUpload is
\* rendered when a reply prompts for it, and its requests stay pending.
Next ==
    \/ MountEffects
    \/ HealthCheckSettles
    \/ TypeInput
    \/ HandleSendMessage
    \/ ChatSettles
    \/ YamlSettles
    \/ KnowledgeUploadEffects

Spec == Init /\ [][Next]_vars

\* The chat outcomes followed next to KnowledgeUpload: a reply that names the
\* agent and prompts for knowledge, and a reply that updates the description
\* and asks for the YAML.
KnowledgeChatResponses == {2, 4}

ChatSettlesNextToKnowledge ==
    \E i \in 1..MaxSends : \E k \in KnowledgeChatResponses : ChatRequestSettles(i, k)
LoadSettles == \E call \in kuCalls : LoadFilesSettles(call)
CreateIndexStarts == \E type \in {"local", "llamacloud"} : HandleCreateIndex(type)
IndexSettles == \E call \in kuCalls : CreateIndexSettles(call)
AutoCloses == \E inst \in kuTimers : AutoCloseTimerFires(inst)

\* The builder page with KnowledgeUpload writing to the shared configuration.
NextKnowledge ==
    \/ MountEffects
    \/ HealthCheckSettles
    \/ TypeInput
    \/ HandleSendMessage
    \/ ChatSettlesNextToKnowledge
    \/ YamlSettles
    \/ KnowledgeUploadEffects
    \/ OpenKnowledgeUpload
    \/ HandleCancel
    \/ LoadSettles
    \/ CreateIndexStarts
    \/ IndexSettles
    \/ AutoCloses

SpecKnowledge == Init /\ [][NextKnowledge]_vars

\* ------------- the builder page: KnowledgeUpload with uploads and removals
FileNames == {"a.txt"}
ChatNamesAgent == \E i \in 1..MaxSends : ChatRequestSettles(i, 2)
RemoveStarts == \E fileName \in FileNames : HandleRemoveFile(fileName)
FileRequestSettles ==
    \E call \in kuCalls : \E k \in 1..Len(FileCallResults) : FileCallSettles(call, k)

NextUploads ==
    \/ MountEffects
    \/ HealthCheckSettles
    \/ TypeInput
    \/ HandleSendMessage
    \/ ChatNamesAgent
    \/ KnowledgeUploadEffects
    \/ LoadSettles
    \/ CreateIndexStarts
    \/ IndexSettles
    \/ HandleFileSelect
    \/ RemoveStarts
    \/ FileRequestSettles

SpecUploads == Init /\ [][NextUploads]_vars

\* ------------------------------------------------ API client on its own
\* An API function is called and the backend answers with a non-2xx status:
\* the function rejects with the Error its `!response.ok` block produces.
ApiCallRejects(api, status, body) ==
    /\ apiCall' = [api |-> api, status |-> status, body |-> body,
                   message |-> HttpErrorMessage(api, status, body)]
    /\ event' = "apiError"
    /\ UNCHANGED <<builderVars, knowledgeVars, panelVars, navVars, testVars, logVars>>

NextApi ==
    \E api \in ApiNames : \E status \in ErrorStatuses : \E body \in ErrorBodies :
        ApiCallRejects(api, status, body)

SpecApi == Init /\ [][NextApi]_vars

\* ------------------------------------------------------- the test page
UploadsFile == \E f \in 1..Len(TestFiles) : HandleFileUpload(f)
FileReadSettles ==
    \E reader \in taReaders : \E readOk \in BOOLEAN : FileReaderSettles(reader, readOk)
TestChatRequestSettles ==
    \E call \in taChats : \E k \in 1..Len(TestChatResults) : TestChatSettles(call, k)

NextTest ==
    \/ LogsEffect
    \/ UploadsFile
    \/ FileReadSettles
    \/ TestTypeInput
    \/ TestHandleSendMessage
    \/ TestChatRequestSettles

InitOnTestPage == InitAt("test")

SpecTest == InitOnTestPage /\ [][NextTest]_vars

\* The test page with the edit mode of the Agent Information tab.
NextEdit ==
    \/ LogsEffect
    \/ UploadsFile
    \/ FileReadSettles
    \/ TestTypeInput
    \/ TestHandleSendMessage
    \/ TestChatRequestSettles
    \/ ToggleEditMode
    \/ MemorySizeInput

SpecEdit == InitOnTestPage /\ [][NextEdit]_vars

\* ------------------------------------------------------- the log tail
RefreshRequestSettles ==
    \E call \in logCalls : \E k \in 1..Len(FetchLogsResults) : RefreshSettles(call, k)
SetupRequestSettles ==
    \E call \in logCalls : \E k \in 1..Len(FetchLogsResults) : SetupSettles(call, k)
StreamDelivers ==
    \E sid \in 1..Len(streams) : \E d \in 1..Len(StreamData) : StreamMessage(sid, d)
StreamFails ==
    \E sid \in 1..Len(streams) : \E closes \in BOOLEAN : StreamError(sid, closes)

NextLogs ==
    \/ LogsEffect
    \/ SelectInfoTab
    \/ SelectLogsTab
    \/ RefreshLogs
    \/ RefreshRequestSettles
    \/ SetupRequestSettles
    \/ StreamDelivers
    \/ StreamFails

SpecLogs == InitOnTestPage /\ [][NextLogs]_vars

\* ---------------------------- ConfigPanel's server list across navigation
DelayedLoad == \E t \in panelTimers : DelayedLoadFires(t)
RetryInterval == \E t \in panelTimers : RetryIntervalFires(t)
McpListSettles ==
    \E call \in panelCalls : \E k \in 1..Len(McpListResults) :
        LoadMcpServersSettles(call, k)
Navigates == \E page \in {"builder", "test"} : NavigateTo(page)

NextPanel ==
    \/ MountEffects
    \/ HealthCheckSettles
    \/ OrphanHealthCheckSettles
    \/ LogsEffect
    \/ DelayedLoad
    \/ RetryInterval
    \/ McpListSettles
    \/ Navigates

SpecPanel == Init /\ [][NextPanel]_vars

\* -------------- the builder chat across page changes: the shared loading flag
ChatReplies == \E i \in 1..MaxSends : ChatRequestSettles(i, 1)

NextLoading ==
    \/ MountEffects
    \/ HealthCheckSettles
    \/ OrphanHealthCheckSettles
    \/ LogsEffect
    \/ TypeInput
    \/ HandleSendMessage
    \/ ChatReplies
    \/ Navigates

SpecLoading == Init /\ [][NextLoading]_vars

\* ------------- the builder page: ticking servers, then generating the YAML
ServerNames == {"github", "slack"}
TogglesServer == \E serverName \in ServerNames : ToggleServerSelection(serverName)
ChatAsksForYaml == \E i \in 1..MaxSends : ChatRequestSettles(i, 4)

NextSelection ==
    \/ MountEffects
    \/ HealthCheckSettles
    \/ DelayedLoad
    \/ McpListSettles
    \/ TogglesServer
    \/ TypeInput
    \/ HandleSendMessage
    \/ ChatAsksForYaml
    \/ YamlSettles

SpecSelection == Init /\ [][NextSelection]_vars

\* ------------------- the builder page: the chat next to the server list
\* The chat outcomes followed here: a reply, a network failure, a non-2xx answer.
RetryChatResponses == {1, 7, 8}

ChatSettlesNextToPanel ==
    \E i \in 1..MaxSends : \E k \in RetryChatResponses : ChatRequestSettles(i, k)

NextRetry ==
    \/ MountEffects
    \/ HealthCheckSettles
    \/ TypeInput
    \/ HandleSendMessage
    \/ ChatSettlesNextToPanel
    \/ DelayedLoad
    \/ RetryInterval
    \/ McpListSettles

SpecRetry == Init /\ [][NextRetry]_vars

\* ------------------------------------------ both chats, one page or the other
NextChats ==
    \/ MountEffects
    \/ HealthCheckSettles
    \/ TypeInput
    \/ HandleSendMessage
    \/ ChatSettles
    \/ YamlSettles
    \/ KnowledgeUploadEffects
    \/ LogsEffect
    \/ UploadsFile
    \/ FileReadSettles
    \/ TestTypeInput
    \/ TestHandleSendMessage
    \/ TestChatRequestSettles

InitOnEitherPage == \E page \in {"builder", "test"} : InitAt(page)

SpecChats == InitOnEitherPage /\ [][NextChats]_vars

\* ------------------------------------------------------------- properties

\* Whether config_updates names the knowledge base.
RECURSIVE AnyNamesKnowledgeBase(_)
AnyNamesKnowledgeBase(items) ==
    /\ items # <<>>
    /\ \/ (Head(items).tag = "update" /\ Head(items).field = "knowledge_base")
       \/ AnyNamesKnowledgeBase(Tail(items))

NamesKnowledgeBase(configUpdates) ==
    CASE configUpdates.tag = "none" -> FALSE
      [] configUpdates.tag = "single" -> configUpdates.update.field = "knowledge_base"
      [] configUpdates.tag = "array" -> AnyNamesKnowledgeBase(configUpdates.items)

\* C1: no update of the agent configuration is lost to a concurrent writer.
\* When a chat response whose config_updates do not name the knowledge base
\* (and whose text carries no storage tag) is applied, the knowledge base that
\* KnowledgeUpload wrote while the request was in flight is still in
\* agentConfig afterwards.
C1_NoLostUpdate ==
    [][ ( /\ event' = "chatResponse"
          /\ lastResponse'.ok
          /\ lastResponse'.config_updates.tag # "none"
          /\ ~NamesKnowledgeBase(lastResponse'.config_updates)
          /\ lastResponse'.knowledgeStorage = "none" )
        => agentConfig'.knowledge_base = agentConfig.knowledge_base ]_vars

C3_EmptySubmitIsNoOp ==
    [][ /\ ( event' = "handleSendMessage" /\ Trim(inputMessage) = NoText )
            => /\ chatRequests' = chatRequests
               /\ chats' = chats
               /\ messages' = messages
               /\ isLoading' = isLoading
               /\ error' = error
        /\ ( event' = "testHandleSendMessage" /\ Trim(ta.inputMessage) = NoText )
            => /\ taRequests' = taRequests
               /\ taChats' = taChats
               /\ ta'.messages = ta.messages
               /\ ta'.isLoading = ta.isLoading
               /\ ta'.error = ta.error ]_vars

\* C3 witness: with a configuration loaded and an earlier request failed (the
\* error string is set), the test chat is submitted with a whitespace-only
\* input, and nothing was sent for it.
C3_Witness ==
    /\ event = "testHandleSendMessage"
    /\ ta.agentConfig # Null
    /\ ta.inputMessage # NoText /\ Trim(ta.inputMessage) = NoText
    /\ ta.error # NoText
    /\ taRequests = 1 /\ taChats = {}

\* C4: the retained log list holds at most 300 lines in every reachable
\* state, whatever the initial fetch, the refreshes and the stream deliver.
C4_LogsWithinWindow == Len(ta.logs) <= LogWindow

\* Where the window does hold: right after the stream callback merged an event.
WindowAfterStreamMessage ==
    [][ (event' = "streamMessage" /\ ta'.logs # ta.logs)
            => Len(ta'.logs) <= LogWindow ]_vars

NoDuplicates(list) == Cardinality({list[i] : i \in 1..Len(list)}) = Len(list)

\* C5: starting from a log list without duplicates, the list the stream
\* callback leaves contains no two equal lines.
C5_StreamMergeKeepsLinesDistinct ==
    [][ (event' = "streamMessage" /\ NoDuplicates(ta.logs))
            => NoDuplicates(ta'.logs) ]_vars

\* C6: no log event stream is open whose logs view was torn down, that is,
\* whose effect run has been cleaned up (tab switched away, or unmounted).
C6_NoStreamAfterTeardown ==
    \A sid \in 1..Len(streams) :
        streams[sid].state = "open" => logRuns[streams[sid].run].isActive

\* C7: teardown stops the component's timers. Every MCP list request a
\* ConfigPanel timer starts is started while that ConfigPanel is mounted, and
\* an auto-close timer of KnowledgeUpload fires only while the instance that
\* set it is mounted.
C7_TeardownStopsTimers ==
    [][ /\ \A c \in panelCalls' \ panelCalls :
                route = "builder" /\ panel.live /\ panel.mount = c.mount
        /\ \A inst \in kuTimers \ kuTimers' :
                ku.live /\ ku.inst = inst ]_vars

\* What teardown does stop: the 10 s interval.
IntervalStopsAtTeardown ==
    [][ \A c \in panelCalls' \ panelCalls :
            c.by = "interval" => (route = "builder" /\ panel.live /\ panel.mount = c.mount)
      ]_vars

NoConfigAfterParseFailure ==
    [][ (ta.live /\ ta.error = InvalidYamlText /\ ta.agentConfig = Null)
        => (ta'.live => ta'.agentConfig = Null) ]_vars

\* C9: when the backend answers a non-2xx status with a JSON body that has a
\* detail field, the Error the API function rejects with carries that detail
\* text as its message.
C9_DetailIsErrorMessage ==
    (apiCall # NoApiCall /\ apiCall.body.json /\ apiCall.body.hasDetail)
        => apiCall.message = apiCall.body.detail

\* What the API functions do instead: the message is always the one built by
\* the catch (jsonError) block, from the status alone.
ErrorMessageIsFromStatus ==
    apiCall # NoApiCall => apiCall.message = ErrorCatchBlock(apiCall.api, apiCall.status)

\* The events that are handlers the user invoked.
UserEvents ==
    {"setInputMessage", "handleSendMessage", "openKnowledgeUpload", "handleCancel",
     "handleCreateIndex", "handleFileUpload", "testSetInputMessage",
     "testHandleSendMessage", "selectInfoTab", "selectLogsTab", "refreshLogs",
     "navigate"}

NoFields == [f \in {} |-> NoText]
Optional(f, values) == {NoFields} \cup { f :> v : v \in values }

StoredKnowledgeBase ==
    [storage_type |-> "local", index_info |-> "idx-files", project_name |-> "null",
     local_path |-> "/data/bot", document_count |-> 2, file_names |-> <<"a.txt", "b.txt">>]

ConfigInputs ==
    { ("mode" :> "debug") @@ n @@ d @@ i @@ m @@ t @@ s @@ k :
        n \in Optional("name", {NoText, <<"B", "o", "t">>}),
        d \in Optional("description", {NoText, <<"helper">>}),
        i \in Optional("instruction", {NoText, <<"Be", "brief">>}),
        m \in Optional("memory_size", {0, 50}),
        t \in Optional("tools", {<<>>, <<SearchTool>>}),
        s \in Optional("mcp_servers", {<<>>, <<"files">>}),
        k \in Optional("knowledge_base", {StoredKnowledgeBase}) }

InitWithConfigInputs ==
    \E c \in ConfigInputs :
        /\ InitBuilderWith(c)
        /\ InitKnowledge /\ InitApi /\ InitNav("builder") /\ InitTest
        /\ InitLogs /\ InitPanel
        /\ event = "init"

\* yamlGenerator.generateYaml(agentConfig), stored as the fallback stores it.
GeneratesYaml ==
    /\ yamlContent = NoYaml
    /\ yamlContent' = FetchYaml(FALSE, agentConfig, yamlContent).yamlContent
    /\ event' = "generateYaml"
    /\ UNCHANGED <<agentConfig, messages, isLoading, showYamlButton,
                   showKnowledgeUpload, showMcpServerSelection, inputMessage, error,
                   chats, health, chatRequests, lastResponse>>
    /\ UNCHANGED <<knowledgeVars, panelVars, otherVars>>

\* The agent_config api.sendMessage builds from agentConfig.
FormatsRequest ==
    /\ apiCall = NoApiCall
    /\ apiCall' = [api |-> "sendMessage", request |-> formatAgentConfig(agentConfig)]
    /\ event' = "formatRequest"
    /\ UNCHANGED <<builderVars, knowledgeVars, panelVars, navVars, testVars, logVars>>

NextSerializers == GeneratesYaml \/ FormatsRequest

SpecSerializers == InitWithConfigInputs /\ [][NextSerializers]_vars

\* The updates of a config_updates value, in order, and whether none is null.
UpdateItems(configUpdates) ==
    CASE configUpdates.tag = "none" -> <<>>
      [] configUpdates.tag = "single" -> <<configUpdates.update>>
      [] configUpdates.tag = "array" -> configUpdates.items

WellFormed(configUpdates) ==
    \A i \in 1..Len(UpdateItems(configUpdates)) :
        UpdateItems(configUpdates)[i].tag = "update"

\* What field f holds after the updates `items` when it held `value` before:
\* the value of the last update naming f; for knowledge_base the given
\* fields merged over it.
RECURSIVE ExpectedField(_, _, _)
ExpectedField(value, items, f) ==
    IF items = <<>> THEN value
    ELSE LET u == Head(items)
             next == IF u.field # f THEN value
                     ELSE IF f = "knowledge_base"
                     THEN [g \in (DOMAIN value) \cup (DOMAIN u.value) |->
                                IF g \in DOMAIN u.value THEN u.value[g] ELSE value[g]]
                     ELSE u.value
         IN  ExpectedField(next, Tail(items), f)

\* C11: after a successful chat response carrying config_updates, agentConfig
\* reflects every update of the response (later updates of a field winning,
\* knowledge_base merged) and every field no update names is what it was
\* before the response was processed.
C11_UpdatesAppliedOthersUnchanged ==
    [][ ( /\ event' = "chatResponse"
          /\ lastResponse'.ok /\ lastResponse'.hasMessage
          /\ lastResponse'.config_updates.tag # "none"
          /\ WellFormed(lastResponse'.config_updates)
          /\ lastResponse'.knowledgeStorage = "none" )
        => /\ DOMAIN agentConfig' = DOMAIN agentConfig
           /\ \A f \in DOMAIN agentConfig :
                 agentConfig'[f] =
                    ExpectedField(agentConfig[f],
                                  UpdateItems(lastResponse'.config_updates), f) ]_vars

\* C12: the YAML stored after a response with generate_yaml is generated from
\* the agent configuration as it stands after that response's config_updates.
C12_YamlFromUpdatedConfig ==
    [][ event' \in {"yamlResponse", "yamlFailure"}
        => yamlContent'.config = agentConfig' ]_vars

\* C13: when the backend YAML request fails, the YAML content is the output
\* of yamlGenerator.generateYaml, the YAML panel flag is set, no message is
\* appended to the chat and the chat error string stays empty.
C13_LocalFallback ==
    [][ event' = "yamlFailure"
        => /\ yamlContent'.source = "local"
           /\ yamlContent'.document = generateYaml(yamlContent'.config)
           /\ showYamlButton'
           /\ messages' = messages
           /\ error' = NoText ]_vars

C13_Witness ==
    /\ event = "yamlFailure"
    /\ yamlContent.source = "local"
    /\ yamlContent.document.description = <<"helper">>

\* A text, number or list field of obj that has a value.
HasText(obj, f) == f \in DOMAIN obj /\ obj[f] # NoText
HasNumber(obj, f) == f \in DOMAIN obj /\ obj[f] # 0

\* The YAML document y carries the name, description, instruction, memory
\* size, tools, MCP servers and knowledge-base kind, index and count of c.
CarriesAllButFileNames(c, y) ==
    /\ \A f \in {"name", "description", "instruction"} : HasText(c, f) => y[f] = c[f]
    /\ HasNumber(c, "memory_size") => y.config.memory_size = c.memory_size
    /\ HasItems(c, "tools")
         => /\ "tools" \in DOMAIN y
            /\ Len(y.tools) = Len(c.tools)
            /\ \A i \in 1..Len(c.tools) :
                  /\ y.tools[i].name = c.tools[i].name
                  /\ y.tools[i].endpoint = c.tools[i].endpoint
    /\ HasItems(c, "mcp_servers")
         => "mcp_servers" \in DOMAIN y /\ y.mcp_servers = c.mcp_servers
    /\ "knowledge_base" \in DOMAIN c
         => /\ "knowledge_base" \in DOMAIN y
            /\ y.knowledge_base.storage_type = c.knowledge_base.storage_type
            /\ y.knowledge_base.index_info = c.knowledge_base.index_info
            /\ y.knowledge_base.document_count = c.knowledge_base.document_count

\* C14: the document generateYaml produces carries every field of the agent
\* configuration that has a value, the knowledge base's file name list
\* included.
C14_YamlCarriesEveryField ==
    yamlContent.source = "local"
    => /\ CarriesAllButFileNames(yamlContent.config, yamlContent.document)
       /\ ( /\ "knowledge_base" \in DOMAIN yamlContent.config
            /\ HasItems(yamlContent.config.knowledge_base, "file_names") )
          => /\ "file_names" \in DOMAIN yamlContent.document.knowledge_base
             /\ yamlContent.document.knowledge_base.file_names
                  = yamlContent.config.knowledge_base.file_names

\* Every listed field but the file name list is carried.
YamlCarriesAllButFileNames ==
    yamlContent.source = "local"
    => CarriesAllButFileNames(yamlContent.config, yamlContent.document)

\* The value a serializer gives field f of c: `fallback` when f is absent
\* (or, with `orEmpty`, when it is '' or 0), the value of c otherwise.
Defaulted(c, f, fallback, orEmpty) ==
    IF f \notin DOMAIN c THEN fallback
    ELSE IF orEmpty /\ f = "memory_size" /\ c[f] = 0 THEN fallback
    ELSE IF orEmpty /\ f # "memory_size" /\ c[f] = NoText THEN fallback
    ELSE c[f]

SerializersDefault(orEmpty) ==
    /\ yamlContent.source = "local"
       => LET c == yamlContent.config
              y == yamlContent.document
          IN  /\ y.name = Defaulted(c, "name", UnnamedAgent, orEmpty)
              /\ y.description = Defaulted(c, "description", NoText, orEmpty)
              /\ y.instruction = Defaulted(c, "instruction", NoText, orEmpty)
              /\ y.config.memory_size = Defaulted(c, "memory_size", 10, orEmpty)
              /\ IF HasItems(c, "tools") THEN y.tools = c.tools
                                        ELSE "tools" \notin DOMAIN y
    /\ apiCall.api = "sendMessage"
       => LET c == agentConfig
              q == apiCall.request
          IN  /\ q.name = Defaulted(c, "name", NoText, orEmpty)
              /\ q.description = Defaulted(c, "description", NoText, orEmpty)
              /\ q.instruction = Defaulted(c, "instruction", NoText, orEmpty)
              /\ q.memory_size = Defaulted(c, "memory_size", 10, orEmpty)
              /\ q.tools = Defaulted(c, "tools", <<>>, FALSE)

\* C15 as stated: a default replaces an absent field, and every present
\* value, '' and 0 included, passes through unchanged.
C15_DefaultsOnlyWhenAbsent == SerializersDefault(FALSE)

\* C15: generateYaml and sendMessage replace an absent or empty ('' or 0)
\* name, description, instruction and memory size by the default and absent
\* tools by no tools, and pass every other present value through unchanged.
C15_DefaultsWhenAbsentOrEmpty == SerializersDefault(TRUE)

C15_Witness ==
    /\ yamlContent.source = "local"
    /\ apiCall.api = "sendMessage"
    /\ "name" \in DOMAIN agentConfig /\ agentConfig.name = NoText
    /\ yamlContent.document.name = UnnamedAgent
    /\ "memory_size" \notin DOMAIN agentConfig
    /\ apiCall.request.memory_size = 10
    /\ HasText(agentConfig, "description")
    /\ apiCall.request.description = agentConfig.description

\* The memory size a configuration holds, top-level or under `config`.
HeldMemorySize(config) ==
    IF "config" \in DOMAIN config THEN config.config.memory_size
    ELSE config.memory_size

\* C16: the memory size held in the agent configuration, in the builder and
\* in TestAgent, is an integer between 1 and 100.
C16_MemorySizeBounded ==
    /\ HeldMemorySize(agentConfig) \in 1..100
    /\ (ta.live /\ ta.agentConfig # Null)
         => HeldMemorySize(ta.agentConfig) \in 1..100

\* The servers whose checkbox ConfigPanel renders ticked.
TickedServers ==
    { panel.mcpServers[i] : i \in { j \in 1..Len(panel.mcpServers) :
                                        Includes(panel.selectedServers, panel.mcpServers[j]) } }

Elements(list) == { list[i] : i \in 1..Len(list) }

\* C17: the servers ticked in the configuration panel are exactly
\* agentConfig.mcp_servers, and exactly the mcp_servers of a locally
\* generated YAML of that configuration.
C17_TickedServersAreConfigured ==
    panel.live
    => /\ TickedServers = Elements(agentConfig.mcp_servers)
       /\ (yamlContent.source = "local" /\ yamlContent.config = agentConfig)
            => TickedServers = Elements(Get(yamlContent.document, "mcp_servers"))

\* C18: once a non-empty server list is loaded, a tick of the 10-second
\* timer issues no list request.
C18_NoRetryOnceLoaded ==
    [][ (event' = "mcpInterval" /\ panel.live /\ Len(panel.mcpServers) > 0)
        => mcpRequests' = mcpRequests ]_vars

\* The index identifiers the backend returns, from the file listing or from
\* an index creation.
BackendIndexInfos ==
    { GetFilesResults[k].index_info :
        k \in { j \in 1..Len(GetFilesResults) : GetFilesResults[j].ok } }
    \cup { CreateIndexBodies[k].index_info :
        k \in { j \in 1..Len(CreateIndexBodies) : CreateIndexBodies[j].ok } }

\* C19: a non-null index_info of agentConfig.knowledge_base is one the
\* backend returned, and a create-index answer with success but without
\* index_info ends as a failure that leaves index_info unchanged.
C19_IndexInfoIsFromBackend ==
    [][ /\ ~Falsy(agentConfig'.knowledge_base.index_info)
           => agentConfig'.knowledge_base.index_info \in BackendIndexInfos
        /\ event' = "createIndexWithoutIndexInfo"
           => /\ agentConfig'.knowledge_base.index_info
                    = agentConfig.knowledge_base.index_info
              /\ ku.live => (ku'.error # NoText /\ ~ku'.success) ]_vars

C19_Witness ==
    /\ event = "createIndexWithoutIndexInfo"
    /\ ku.live /\ ku.error # NoText
    /\ Falsy(agentConfig.knowledge_base.index_info)

\* C20: when an index-creation attempt fails, by a rejection or by a result
\* with success false, agentConfig.knowledge_base is what it was before the
\* handler was called.
C20_FailedAttemptLeavesKnowledgeBase ==
    [][ event' \in {"createIndexRejected", "createIndexFailed",
                    "createIndexWithoutIndexInfo"}
        => \A call \in kuCalls \ kuCalls' :
              agentConfig'.knowledge_base = call.knowledgeBaseBefore ]_vars

\* An index creation of the mounted KnowledgeUpload is in flight.
IndexCreationInFlight ==
    ku.live /\ \E c \in kuCalls : c.op = "createIndex" /\ c.inst = ku.inst

\* The step starts a request of one of the kinds `ops` from the mounted view.
StartsFromView(ops) ==
    \E c \in kuCalls' \ kuCalls : c.op \in ops /\ c.inst = ku.inst

\* C21: while an index creation is in flight no index creation, upload or
\* removal is started, and none is started after a successful creation.
C21_IndexCreationExcludesOthers ==
    [][ (IndexCreationInFlight \/ (ku.live /\ ku.success))
        => ~StartsFromView({"createIndex", "uploadFile", "removeFile"}) ]_vars

\* Index creations and removals are excluded; uploads are what is not.
CreationExcludesCreationAndRemoval ==
    [][ (IndexCreationInFlight \/ (ku.live /\ ku.success))
        => ~StartsFromView({"createIndex", "removeFile"}) ]_vars

NoStartAfterSuccess ==
    [][ (ku.live /\ ku.success)
        => ~StartsFromView({"createIndex", "uploadFile", "removeFile"}) ]_vars

\* The chat requests under way in the builder chat and in the test chat.
BuilderChatsInFlight ==
    { i \in 1..MaxSends : chats[i].pc \in {"awaitSend", "awaitYaml"} }

\* C22: at most one chat request is in flight at any time, in the builder
\* chat and in the test chat.
C22_OneChatInFlight ==
    /\ Cardinality(BuilderChatsInFlight) <= 1
    /\ Cardinality(taChats) <= 1

\* C23: whenever the loading flag is false the chat history is the welcome
\* message followed by strictly alternating user and assistant messages, one
\* assistant message per submitted message.
C23_HistoryAlternates ==
    (~isLoading /\ messages # <<>>)
    => /\ messages[1] = WelcomeMessage
       /\ Len(messages) % 2 = 1
       /\ \A i \in 2..Len(messages) :
             messages[i].role = IF i % 2 = 0 THEN "user" ELSE "assistant"

\* C24: when an update of a config_updates array throws, agentConfig is left
\* as it was, with no earlier update of the array applied.
C24_AllOrNothing ==
    [][ ( /\ event' = "chatResponse"
          /\ lastResponse'.ok
          /\ ~WellFormed(lastResponse'.config_updates) )
        => agentConfig' = agentConfig ]_vars

C24_Witness ==
    /\ event = "chatResponse"
    /\ lastResponse.ok
    /\ ~WellFormed(lastResponse.config_updates)
    /\ UpdateItems(lastResponse.config_updates)[1].field = "memory_size"
    /\ agentConfig.memory_size # UpdateItems(lastResponse.config_updates)[1].value
    /\ messages[Len(messages)] = ChatErrorMessage(TypeErrorText)

====
